---- MODULE Spec2Model ----
(***************************************************************************)
(* Model of langchain_community/document_loaders/parsers/pdf.py:           *)
(* the text/extras merger, the metadata validator and normaliser, the      *)
(* caption formatter, the per-page image extraction of the parsers, their  *)
(* constructors, the lazy traversal of a document, and the class-wide      *)
(* locks of PyMuPDFParser and PyPDFium2Parser.                             *)
(*                                                                         *)
(* A Python str is a sequence of one-character strings; NL is "\n".        *)
(***************************************************************************)
EXTENDS Integers, Sequences, FiniteSets, TLC

VARIABLES
    \* _merge_text_and_extras(extras, text_from_page), its result, and
    \* the position of the call ("input", "merged")
    text_from_page, extras, all_text, mpc,
    \* _validate_metadata(metadata): its argument, its outcome
    \* ("returned" / "ValueError"), the returned mapping, the message
    \* of the exception, and the position of the call
    metadata, voutcome, vresult, verror, vpc,
    \* extract_images_from_page / _extract_images_from_page on one page:
    \* the parser and the page (icfg), the number of images handled (idx),
    \* the image handled last and what became of it (cur, cur_out), the
    \* local list `images`, what became of each image in order (ilog),
    \* the position in the function (ipc), its return value (iret)
    icfg, idx, cur, cur_out, images, ilog, ipc, iret,
    \* lazy_parse of one parser on one document: the parser, its options
    \* and the document (pcfg), doc_metadata, the number of pages handled
    \* (pno), what each handled page held (pinput), the per-page texts kept
    \* for the single record (single_texts), the list PDFPlumberParser
    \* builds before it yields (built), the records yielded (records),
    \* the position in the generator (ppc), the exception it raised (perror)
    pcfg, doc_metadata, pno, pinput, single_texts, built, records, ppc, perror,
    \* _purge_metadata(metadata): its argument (the items in insertion
    \* order), its outcome, and the position of the call; and the outcome
    \* of a second call on the dict the first one returned
    purge_in, purge_out, purge_pc, purge_again,
    \* the construction of a parser and the parsing of one page by it: the
    \* arguments of __init__ (cargs), the attributes it set (cself), the
    \* position ("new", "built", "raised", "parsed", "parse_raised"), and the
    \* outcome of the page (cout)
    cargs, cself, cpc, cout,
    \* the class-wide locks of PyMuPDFParser and PyPDFium2Parser (lock: for
    \* each class the traversal that holds its _lock, 0 for none) and the
    \* generators lazy_parse returned (trav: for each its class, the thread
    \* blocked on it, and its position)
    lock, trav,
    \* _format_inner_image(blob, content, format): its arguments (fmt_in), its
    \* return value (fmt_out), and the position of the call
    fmt_in, fmt_out, fmt_pc

mergeVars == <<text_from_page, extras, all_text, mpc>>
validateVars == <<metadata, voutcome, vresult, verror, vpc>>
imageVars == <<icfg, idx, cur, cur_out, images, ilog, ipc, iret>>
parseVars == <<pcfg, doc_metadata, pno, pinput, single_texts, built, records,
              ppc, perror>>
purgeVars == <<purge_in, purge_out, purge_pc, purge_again>>
constructVars == <<cargs, cself, cpc, cout>>
lockVars == <<lock, trav>>
formatVars == <<fmt_in, fmt_out, fmt_pc>>
notMergeVars == <<validateVars, imageVars, parseVars, purgeVars,
                  constructVars, lockVars, formatVars>>
notValidateVars == <<mergeVars, imageVars, parseVars, purgeVars,
                     constructVars, lockVars, formatVars>>
notImageVars == <<mergeVars, validateVars, parseVars, purgeVars,
                  constructVars, lockVars, formatVars>>
notParseVars == <<mergeVars, validateVars, imageVars, purgeVars,
                  constructVars, lockVars, formatVars>>
notPurgeVars == <<mergeVars, validateVars, imageVars, parseVars,
                  constructVars, lockVars, formatVars>>
notConstructVars == <<mergeVars, validateVars, imageVars, parseVars,
                      purgeVars, lockVars, formatVars>>
notLockVars == <<mergeVars, validateVars, imageVars, parseVars, purgeVars,
                 constructVars, formatVars>>
notFormatVars == <<mergeVars, validateVars, imageVars, parseVars, purgeVars,
                   constructVars, lockVars>>
vars == <<text_from_page, extras, all_text, mpc,
          metadata, voutcome, vresult, verror, vpc,
          icfg, idx, cur, cur_out, images, ilog, ipc, iret,
          pcfg, doc_metadata, pno, pinput, single_texts, built, records,
          ppc, perror, purge_in, purge_out, purge_pc, purge_again,
          cargs, cself, cpc, cout,
          lock, trav,
          fmt_in, fmt_out, fmt_pc>>

\* the variables of a component that a specification does not exercise
IdleMerge ==
    /\ text_from_page = <<>>
    /\ extras = <<>>
    /\ all_text = <<>>
    /\ mpc = "idle"

IdleValidate ==
    /\ metadata = <<>>
    /\ voutcome = "none"
    /\ vresult = <<>>
    /\ verror = ""
    /\ vpc = "idle"

IdleImages ==
    /\ icfg = <<>>
    /\ idx = 0
    /\ cur = <<>>
    /\ cur_out = <<>>
    /\ images = <<>>
    /\ ilog = <<>>
    /\ ipc = "idle"
    /\ iret = <<>>

IdleParse ==
    /\ pcfg = <<>>
    /\ doc_metadata = <<>>
    /\ pno = 0
    /\ pinput = <<>>
    /\ single_texts = <<>>
    /\ built = <<>>
    /\ records = <<>>
    /\ ppc = "idle"
    /\ perror = ""

IdlePurge ==
    /\ purge_in = <<>>
    /\ purge_out = <<>>
    /\ purge_pc = "idle"
    /\ purge_again = <<>>

IdleConstruct ==
    /\ cargs = <<>>
    /\ cself = <<>>
    /\ cpc = "idle"
    /\ cout = <<>>

IdleLock ==
    /\ lock = <<>>
    /\ trav = <<>>

IdleFormat ==
    /\ fmt_in = <<>>
    /\ fmt_out = <<>>
    /\ fmt_pc = "idle"

----------------------------------------------------------------------------
\* Bounds of the model
MaxTextLen == 9
MaxExtras == 2
\* images of one page; height and width of an image; bytes of its buffer;
\* channel count a pixmap declares
MaxImages == 2
MaxDim == 2
MaxSize == 8
MaxDeclared == 5
\* pages of a document
MaxPages == 2
\* tables find_tables reports on one page
MaxTables == 1
\* generators under the class-wide locks; records one of them yields
MaxTraversals == 3
MaxYields == 2
\* characters of a caption handed to _format_inner_image
MaxCaptionLen == 3

----------------------------------------------------------------------------
\* Python str helpers

NL == "\n"

\* s[:p] and s[p:] for 0 <= p <= len(s)
Prefix(s, p) == SubSeq(s, 1, p)
Suffix(s, p) == SubSeq(s, p + 1, Len(s))

RECURSIVE RFindFrom(_, _, _)
RFindFrom(s, d, p) ==
    IF p < 0 THEN -1
    ELSE IF SubSeq(s, p + 1, p + Len(d)) = d THEN p
    ELSE RFindFrom(s, d, p - 1)

\* s.rfind(d): the highest 0-based index at which d occurs in s, or -1
RFind(s, d) == RFindFrom(s, d, Len(s) - Len(d))

\* filter(lambda x: x, xs): the non-empty entries, in order
FilterNonEmpty(xs) == SelectSeq(xs, LAMBDA x : x # <<>>)

RECURSIVE JoinSeq(_, _)
\* sep.join(xs)
JoinSeq(sep, xs) ==
    IF xs = <<>> THEN <<>>
    ELSE IF Len(xs) = 1 THEN xs[1]
    ELSE xs[1] \o sep \o JoinSeq(sep, Tail(xs))

\* Optional[str]
None == [none |-> TRUE, str |-> <<>>]
Some(s) == [none |-> FALSE, str |-> s]
\* Python truthiness of an Optional[str]: neither None nor ""
Truthy(o) == ~o.none /\ o.str # <<>>

----------------------------------------------------------------------------
\* _PARAGRAPH_DELIMITER and _merge_text_and_extras

\* -- faulty variant: the list in the opposite order
PARAGRAPH_DELIMITER_REVERSED == << <<NL, NL>>, <<NL, NL, NL>> >>
PARAGRAPH_DELIMITER == << <<NL, NL, NL>>, <<NL, NL>> >>

\* "\n\n".join(filter(lambda x: x, extras))   -- faulty variant: no filter
StrExtrasNoFilter(xs) == JoinSeq(<<NL, NL>>, xs)
StrExtras(xs) == JoinSeq(<<NL, NL>>, FilterNonEmpty(xs))

\* all_extras = delim + str_extras if str_extras else ""
\* -- faulty variant: the delimiter is left out
AllExtrasNoDelim(delim, xs) == StrExtras(xs)
AllExtras(delim, xs) ==
    IF StrExtras(xs) # <<>> THEN delim \o StrExtras(xs) ELSE <<>>

\* text_from_page[:pos] + all_extras + text_from_page[pos:]
\* -- faulty variant: the character at pos is lost
SpliceAtOverwrite(text, pos, ins) ==
    Prefix(text, pos) \o ins \o Suffix(text, pos + 1)
SpliceAt(text, pos, ins) == Prefix(text, pos) \o ins \o Suffix(text, pos)

RECURSIVE recurs_merge_text_and_extras(_, _, _)
RECURSIVE RecursDelimLoop(_, _, _, _)

\* for delim in _PARAGRAPH_DELIMITER: ... break / else: all_text = None
RecursDelimLoop(xs, text, recurs, i) ==
    IF i > Len(PARAGRAPH_DELIMITER) THEN None
    ELSE LET delim == PARAGRAPH_DELIMITER[i]
             pos == RFind(text, delim)
         IN  IF pos = -1 THEN RecursDelimLoop(xs, text, recurs, i + 1)
             ELSE LET previous_text ==
                          IF recurs
                          THEN recurs_merge_text_and_extras(
                                   xs, Prefix(text, pos), FALSE)
                          ELSE None
                  IN  IF Truthy(previous_text)
                      THEN Some(previous_text.str \o Suffix(text, pos))
                      ELSE Some(SpliceAt(text, pos, AllExtras(delim, xs)))

recurs_merge_text_and_extras(xs, text, recurs) ==
    IF xs # <<>> THEN RecursDelimLoop(xs, text, recurs, 1) ELSE Some(text)

\* the first call: _recurs_merge_text_and_extras(extras, text_from_page, True)
\* -- faulty variant: no look-back
FirstCallNoRecurs(xs, text) == recurs_merge_text_and_extras(xs, text, FALSE)
FirstCall(xs, text) == recurs_merge_text_and_extras(xs, text, TRUE)

\* _PARAGRAPH_DELIMITER[-1], the delimiter of the append fallback
\* -- faulty variant: the first delimiter of the list
FallbackDelimiterFirst == PARAGRAPH_DELIMITER[1]
FallbackDelimiter == PARAGRAPH_DELIMITER[Len(PARAGRAPH_DELIMITER)]

merge_text_and_extras(xs, text) ==
    LET first == FirstCall(xs, text)
    IN  IF ~Truthy(first)
        THEN text \o (IF StrExtras(xs) # <<>>
                      THEN FallbackDelimiter \o StrExtras(xs)
                      ELSE <<>>)
        ELSE first.str

----------------------------------------------------------------------------
\* Inputs of the merger: a page text built character by character, and
\* a list of auxiliary blocks.

Letters == <<"A", "B", "C">>

\* the maximal runs of newlines of s, as <<first, last>> (1-based, inclusive)
NewlineRuns(s) ==
    { r \in (1..Len(s)) \X (1..Len(s)) :
        /\ r[1] <= r[2]
        /\ \A i \in r[1]..r[2] : s[i] = NL
        /\ (r[1] = 1 \/ s[r[1] - 1] # NL)
        /\ (r[2] = Len(s) \/ s[r[2] + 1] # NL) }

\* the letter of the paragraph that s is in: A, B, C, A, ...
ParagraphLetter(s) == Letters[(Cardinality(NewlineRuns(s)) % Len(Letters)) + 1]

\* auxiliary blocks: nothing, a caption, a caption as formatted by
\* _FORMAT_IMAGE_STR ("\n\n{image_text}\n\n")
ExtraBlocks == { <<>>, <<"X">>, <<NL, NL, "Y", NL, NL>> }

InitMerge ==
    /\ text_from_page = <<>>
    /\ extras = <<>>
    /\ all_text = <<>>
    /\ mpc = "input"
    /\ IdleValidate
    /\ IdleImages
    /\ IdleParse
    /\ IdlePurge
    /\ IdleFormat
    /\ IdleLock
    /\ IdleConstruct

AppendNewline ==
    /\ mpc = "input"
    /\ Len(text_from_page) < MaxTextLen
    /\ text_from_page' = Append(text_from_page, NL)
    /\ UNCHANGED <<extras, all_text, mpc>>
    /\ UNCHANGED notMergeVars

AppendLetter ==
    /\ mpc = "input"
    /\ Len(text_from_page) < MaxTextLen
    /\ text_from_page' = Append(text_from_page, ParagraphLetter(text_from_page))
    /\ UNCHANGED <<extras, all_text, mpc>>
    /\ UNCHANGED notMergeVars

AppendExtra(e) ==
    /\ mpc = "input"
    /\ Len(extras) < MaxExtras
    /\ extras' = Append(extras, e)
    /\ UNCHANGED <<text_from_page, all_text, mpc>>
    /\ UNCHANGED notMergeVars

CallMerge ==
    /\ mpc = "input"
    /\ all_text' = merge_text_and_extras(extras, text_from_page)
    /\ mpc' = "merged"
    /\ UNCHANGED <<text_from_page, extras>>
    /\ UNCHANGED notMergeVars

NextMerge ==
    \/ AppendNewline
    \/ AppendLetter
    \/ \E e \in ExtraBlocks : AppendExtra(e)
    \/ CallMerge

SpecMerge == InitMerge /\ [][NextMerge]_vars

----------------------------------------------------------------------------
\* Metadata mappings (dict[str, Any]) and _validate_metadata

\* a Python value: its type, and its content as an int or as a str
IntV(n) == [type |-> "int", n |-> n, s |-> ""]
StrV(x) == [type |-> "str", n |-> 0, s |-> x]
BoolV(b) == [type |-> "bool", n |-> IF b THEN 1 ELSE 0, s |-> ""]
NoneV == [type |-> "NoneType", n |-> 0, s |-> ""]

\* isinstance(v, int): bool is a subclass of int
IsInstanceInt(v) == v.type \in {"int", "bool"}

\* the empty dict, d[k] = v, and d1 | d2
EmptyDict == <<>>
DictSet(d, k, v) ==
    [x \in DOMAIN d \cup {k} |-> IF x = k THEN v ELSE d[x]]
DictUnion(d1, d2) ==
    [x \in DOMAIN d1 \cup DOMAIN d2 |-> IF x \in DOMAIN d2 THEN d2[x] ELSE d1[x]]

STD_METADATA_KEYS ==
    {"source", "total_pages", "creationdate", "creator", "producer"}

\* metadata.get("page", 0)   -- faulty variant: metadata.get("page")
GetPageDefaultNone(m) == IF "page" \in DOMAIN m THEN m["page"] ELSE NoneV
GetPage(m) == IF "page" \in DOMAIN m THEN m["page"] ELSE IntV(0)

Returned(m) == [outcome |-> "returned", value |-> m, error |-> ""]
Raised(exc, msg) == [outcome |-> exc, value |-> EmptyDict, error |-> msg]

validate_metadata(m) ==
    IF ~(STD_METADATA_KEYS \subseteq DOMAIN m)
    THEN Raised("ValueError",
                "The PDF parser must valorize the standard metadata.")
    ELSE IF ~IsInstanceInt(GetPage(m))
    THEN Raised("ValueError", "The PDF metadata page must be a integer.")
    ELSE Returned(m)

\* the mappings handed to _validate_metadata: any subset of these keys,
\* each with one of these values
ValidateKeys == STD_METADATA_KEYS \cup {"page", "title"}
ValuesOf(k) ==
    CASE k = "page" ->
            {IntV(0), IntV(3), StrV("3"), BoolV(TRUE), NoneV}
      [] k = "total_pages" -> {IntV(2)}
      [] k = "creationdate" -> {StrV("")}
      [] OTHER -> {StrV("x")}

InitValidate ==
    /\ metadata = EmptyDict
    /\ voutcome = "none"
    /\ vresult = EmptyDict
    /\ verror = ""
    /\ vpc = "input"
    /\ IdleMerge
    /\ IdleImages
    /\ IdleParse
    /\ IdlePurge
    /\ IdleFormat
    /\ IdleLock
    /\ IdleConstruct

\* metadata[k] = v, while the caller builds the mapping
SetItem(k, v) ==
    /\ vpc = "input"
    /\ k \notin DOMAIN metadata
    /\ metadata' = DictSet(metadata, k, v)
    /\ UNCHANGED <<voutcome, vresult, verror, vpc>>
    /\ UNCHANGED notValidateVars

CallValidate ==
    /\ vpc = "input"
    /\ LET r == validate_metadata(metadata)
       IN  /\ voutcome' = r.outcome
           /\ vresult' = r.value
           /\ verror' = r.error
    /\ vpc' = "done"
    /\ UNCHANGED metadata
    /\ UNCHANGED notValidateVars

NextValidate ==
    \/ \E k \in ValidateKeys : \E v \in ValuesOf(k) : SetItem(k, v)
    \/ CallValidate

SpecValidate == InitValidate /\ [][NextValidate]_vars

----------------------------------------------------------------------------
\* Image captions and _format_inner_image

FORMAT_IMAGE_STR(image_text) == <<NL, NL>> \o image_text \o <<NL, NL>>
JOIN_IMAGES == <<NL>>

RECURSIVE ConcatMap(_, _)
\* "".join(f(c) for c in s)
ConcatMap(f(_), s) ==
    IF s = <<>> THEN <<>> ELSE f(Head(s)) \o ConcatMap(f, Tail(s))

\* html.escape(s, quote=True), character by character
HtmlEscapeChar(c) ==
    CASE c = "&" -> <<"&", "a", "m", "p", ";">>
      [] c = "<" -> <<"&", "l", "t", ";">>
      [] c = ">" -> <<"&", "g", "t", ";">>
      [] c = "\"" -> <<"&", "q", "u", "o", "t", ";">>
      [] c = "'" -> <<"&", "#", "x", "2", "7", ";">>
      [] OTHER -> <<c>>

\* content.replace("]", r"\\]"): the raw string is two backslashes and "]"
MarkdownEscapeChar(c) == IF c = "]" THEN <<"\\", "\\", "]">> ELSE <<c>>

\* blob.source or "#": an image blob built by Blob.from_data has no source
ImageBlobSource == <<"#">>

format_inner_image(source, content, format) ==
    IF content = <<>> THEN content
    ELSE IF format = "markdown-img"
    THEN <<"!", "[">> \o ConcatMap(MarkdownEscapeChar, content)
            \o <<"]", "(">> \o source \o <<")">>
    ELSE IF format = "html-img"
    THEN <<"<", "i", "m", "g", " ", "a", "l", "t", "=", "\"">>
            \o ConcatMap(HtmlEscapeChar, content)
            \o <<" ", "s", "r", "c", "=", "\"">> \o source
            \o <<"\"", " ", "/", ">">>
    ELSE content

----------------------------------------------------------------------------
\* Image reconstruction: PyPDFParser.extract_images_from_page and
\* PyMuPDFParser._extract_images_from_page

PDF_FILTER_WITH_LOSS == {"DCTDecode", "DCT", "JPXDecode"}
PDF_FILTER_WITHOUT_LOSS ==
    {"LZWDecode", "LZW", "FlateDecode", "Fl", "ASCII85Decode", "A85",
     "ASCIIHexDecode", "AHx", "RunLengthDecode", "RL", "CCITTFaxDecode",
     "CCF", "JBIG2Decode"}
FILTERS_HANDLED_BY_PILLOW ==
    PDF_FILTER_WITH_LOSS \cup
    {"CCITTFaxDecode", "CCF", "JBIG2Decode", "FlateDecode", "Fl",
     "LZWDecode", "LZW", "RunLengthDecode", "RL"}

\* the channel counts accepted: (1, 3, 4)   -- faulty variant: 2 accepted as well
ValidChannelsWithTwo == {1, 2, 3, 4}
ValidChannels == {1, 3, 4}

\* what became of one image: appended to `images` (text is the formatted
\* caption), skipped by a `continue`, not an image at all, or an exception
\* (exc) raised inside the try block.  array tells how np_image was made
\* ("none", "reshaped", "pillow") and shape is the shape it was reshaped to.
Outcome(status, reason, exc, array, shape, text) ==
    [status |-> status, reason |-> reason, exc |-> exc, array |-> array,
     shape |-> shape, text |-> text]
NoOutcome == Outcome("none", "", "", "none", <<>>, <<>>)
SkipImage(reason) == Outcome("skipped", reason, "", "none", <<>>, <<>>)
RaiseIn(exc, array, shape) == Outcome("exception", "", exc, array, shape, <<>>)

\* `from PIL import Image` is executed in PyPDFParser.extract_images_from_page;
\* PyMuPDFParser._extract_images_from_page imports pymupdf only and the
\* module imports no PIL, so the name Image is unbound there.
PILImageBound(parser) == parser = "PyPDF"

\* numpy reshape(height, width, channels) of a buffer of `size` bytes
ReshapeOk(size, height, width, channels) == size = height * width * channels

\* Image.fromarray .. save .. images_parser.lazy_parse .. images.append
EncodeAndCaption(parser, img, format, array, shape) ==
    IF ~PILImageBound(parser) THEN RaiseIn("NameError", array, shape)
    ELSE IF img.encoded = "raise" THEN RaiseIn("TypeError", array, shape)
    ELSE IF img.encoded = "empty"
    THEN Outcome("skipped", "zero bytes after PIL saving", "", array,
                 shape, <<>>)
    ELSE IF img.caption.raises THEN RaiseIn("RuntimeError", array, shape)
    ELSE Outcome("appended", "", "", array, shape,
                 format_inner_image(ImageBlobSource, img.caption.text, format))

\* the filter name of an image XObject of pypdf (without its leading "/")
PyPDFFilter(img) ==
    CASE img.filter.form = "missing" ->
            [ok |-> FALSE, out |-> RaiseIn("KeyError", "none", <<>>)]
      [] img.filter.form = "empty_array" ->
            [ok |-> FALSE, out |-> SkipImage("empty /Filter array")]
      [] img.filter.form = "array_not_name" ->
            [ok |-> FALSE, out |-> SkipImage("first element is not a NameObject")]
      [] img.filter.form = "other" ->
            [ok |-> FALSE, out |-> SkipImage("unknown /Filter type")]
      [] OTHER ->
            IF img.filter.name = ""
            THEN [ok |-> FALSE, out |-> SkipImage("missing or empty /Filter name")]
            ELSE [ok |-> TRUE, out |-> SkipImage("")]

\* the raw-pixel branch (img_filter in _PDF_FILTER_WITHOUT_LOSS)
PyPDFReshape(parser, img, format) ==
    LET height == img.height
        width == img.width
        actual_size == img.size
    IN  IF actual_size = 0 \/ height = 0 \/ width = 0
        THEN SkipImage("zero size, height, or width")
        ELSE IF actual_size % (height * width) # 0
        THEN SkipImage("not divisible by H*W")
        ELSE LET inferred_channels == actual_size \div (height * width)
             IN  IF inferred_channels \notin ValidChannels
                 THEN SkipImage("inferred channels is not 1, 3, or 4")
                 ELSE IF ~ReshapeOk(actual_size, height, width, inferred_channels)
                 THEN RaiseIn("ValueError", "none", <<>>)
                 ELSE EncodeAndCaption(parser, img, format, "reshaped",
                          <<height, width, inferred_channels>>)

\* the mode of the Pillow image after the conversions of the first
\* Pillow branch: a palette image becomes RGBA or RGB, any mode other
\* than 1, L, RGB, RGBA becomes RGB
PillowMode(opened) ==
    CASE opened = "P+transparency" -> "RGBA"
      [] opened = "P" -> "RGB"
      [] opened \in {"1", "L", "RGB", "RGBA"} -> opened
      [] OTHER -> "RGB"

\* pil_channels, from the converted mode
PillowChannels(mode) ==
    IF mode \in {"1", "L"} THEN 1 ELSE IF mode = "RGBA" THEN 4 ELSE 3

\* the Pillow branch: Image.open(io.BytesIO(raw_data)), mode conversion,
\* np.array; the array has the mode's channel count
PyPDFPillow(parser, img, format) ==
    IF img.opened = "fail" THEN SkipImage("could not open with Pillow")
    ELSE EncodeAndCaption(parser, img, format, "pillow",
             <<PillowChannels(PillowMode(img.opened))>>)

\* the body of the loop of PyPDFParser.extract_images_from_page; its third
\* branch (img_filter in _PDF_FILTER_WITH_LOSS) is never taken, every such
\* filter being in _FILTERS_HANDLED_BY_PILLOW
PyPDFProcessImage(parser, img, format) ==
    IF img.subtype # "Image"
    THEN Outcome("not_image", "", "", "none", <<>>, <<>>)
    ELSE IF ~PyPDFFilter(img).ok THEN PyPDFFilter(img).out
    ELSE LET img_filter == img.filter.name
         IN  IF img_filter \in FILTERS_HANDLED_BY_PILLOW
             THEN PyPDFPillow(parser, img, format)
             ELSE IF img_filter \in PDF_FILTER_WITHOUT_LOSS
             THEN PyPDFReshape(parser, img, format)
             ELSE SkipImage("unknown PDF filter")

\* the body of the loop of PyMuPDFParser._extract_images_from_page
PyMuPDFProcessImage(parser, img, format) ==
    LET height == img.height
        width == img.width
        actual_size == img.size
        infer0 == img.n = 0 /\ actual_size % (height * width) = 0
        channels == IF img.n \notin ValidChannels /\ infer0
                    THEN actual_size \div (height * width)
                    ELSE img.n
        expected_size == height * width * channels
    IN  IF actual_size = 0 \/ height = 0 \/ width = 0
        THEN SkipImage("zero size, height, or width")
        ELSE IF img.n \notin ValidChannels /\ ~infer0
        THEN SkipImage("unusual number of channels")
        ELSE IF img.n \notin ValidChannels /\ channels \notin ValidChannels
        THEN SkipImage("pix.n=0 and inferred channels not in (1,3,4)")
        ELSE IF actual_size = expected_size
        THEN IF ReshapeOk(actual_size, height, width, channels)
             THEN EncodeAndCaption(parser, img, format, "reshaped",
                      <<height, width, channels>>)
             ELSE RaiseIn("ValueError", "none", <<>>)
        ELSE IF actual_size % (height * width) = 0
        THEN LET inferred_channels_fallback == actual_size \div (height * width)
             IN  IF inferred_channels_fallback \in ValidChannels
                 THEN EncodeAndCaption(parser, img, format, "reshaped",
                          <<height, width, inferred_channels_fallback>>)
                 ELSE SkipImage("fallback inferred channels is not 1, 3, or 4")
        ELSE SkipImage("actual size is not a multiple of H*W")

ProcessImage(parser, img, format) ==
    IF parser = "PyPDF" THEN PyPDFProcessImage(parser, img, format)
    ELSE PyMuPDFProcessImage(parser, img, format)

\* the handlers of the try block around one image: `except ValueError`,
\* then `except Exception`   -- faulty variant: the first handler only
ExceptClausesValueErrorOnly == {"ValueError"}
ExceptClauses == {"ValueError", "Exception"}

\* every exception of the model derives from Exception
IsCaught(exc) == "Exception" \in ExceptClauses \/ exc \in ExceptClauses

\* _FORMAT_IMAGE_STR.format(image_text=_JOIN_IMAGES.join(filter(None, images)))
ImagesReturnValue(imgs) ==
    FORMAT_IMAGE_STR(JoinSeq(JOIN_IMAGES, FilterNonEmpty(imgs)))

----------------------------------------------------------------------------
\* One call of the image extraction of a page (SpecImages)

Captions ==
    { [raises |-> TRUE, text |-> <<>>],
      [raises |-> FALSE, text |-> <<>>],
      [raises |-> FALSE, text |-> <<"T">>] }

\* what happens after the array is built: re-encoding (ok, an empty
\* buffer, an exception of Pillow) and, if it is ok, the image parser
Downstream ==
    { [encoded |-> "ok", caption |-> c] : c \in Captions }
    \cup { [encoded |-> e, caption |-> [raises |-> FALSE, text |-> <<"T">>]] :
             e \in {"empty", "raise"} }

FilterName(f) == [form |-> "name", name |-> f]
InputFilterNames == {"DCTDecode", "FlateDecode", "ASCIIHexDecode", "Crypt", ""}

Image(subtype, filter, height, width, size, n, opened, down) ==
    [subtype |-> subtype, filter |-> filter, height |-> height,
     width |-> width, size |-> size, n |-> n, opened |-> opened,
     encoded |-> down.encoded, caption |-> down.caption, bits |-> 8]

\* the same image with another /BitsPerComponent
WithBits(img, bits) == [img EXCEPT !.bits = bits]

\* the steps after the array is built, for images that only fail earlier
DownstreamOk == [encoded |-> "ok", caption |-> [raises |-> FALSE, text |-> <<"T">>]]

\* filters of the raw-pixel branch among the names drawn
RawPathNames == InputFilterNames \ FILTERS_HANDLED_BY_PILLOW

\* image XObjects whose decoded data are raw pixels (Pillow cannot open
\* them): every height, width and length under a filter of the raw-pixel
\* branch, one 3-channel and one odd-sized buffer under the other filters
RawPixelImages ==
    { Image("Image", FilterName(f), h, w, size, 0, "fail", DownstreamOk) :
        f \in RawPathNames \cap PDF_FILTER_WITHOUT_LOSS,
        h \in 0..MaxDim, w \in 0..MaxDim, size \in 0..MaxSize }
    \cup { Image("Image", FilterName(f), 1, 1, size, 0, "fail", d) :
             f \in InputFilterNames, size \in {3, 5}, d \in Downstream }

\* image XObjects whose decoded data are an image file that Pillow opens
\* in some mode; their byte length has nothing to do with the dimensions
ContainerImages ==
    { Image("Image", FilterName(f), 1, 1, size, 0, mode, d) :
        f \in InputFilterNames \ {""}, size \in {3, 5},
        mode \in {"1", "L", "P", "P+transparency", "RGB", "RGBA", "CMYK"},
        d \in {DownstreamOk} }

\* XObjects that are no image, and images with an unusual /Filter entry
OddImages ==
    { Image("Form", FilterName("FlateDecode"), 1, 1, 3, 0, "fail", DownstreamOk) }
    \cup { Image("Image", [form |-> form, name |-> "ASCIIHexDecode"], 1, 1, 3,
                 0, "fail", DownstreamOk) :
             form \in {"missing", "empty_array", "array_not_name", "other",
                       "array"} }

\* pixmaps of PyMuPDF: pix.n, pix.height, pix.width, len(pix.samples)
PixmapImages ==
    { Image("Image", FilterName(""), h, w, size, n, "fail", d) :
        h \in 0..MaxDim, w \in 0..MaxDim, size \in 0..MaxSize,
        n \in 0..MaxDeclared,
        d \in {DownstreamOk, [encoded |-> "ok",
                              caption |-> [raises |-> TRUE, text |-> <<>>]]} }

ImagesOf(parser) ==
    IF parser = "PyPDF"
    THEN RawPixelImages \cup ContainerImages \cup OddImages
    ELSE PixmapImages

ImageConfigs ==
    { [parser |-> p, images_parser |-> ip, images_inner_format |-> f,
       resources |-> r, n_images |-> n] :
        p \in {"PyPDF", "PyMuPDF"}, ip \in BOOLEAN,
        f \in {"text", "markdown-img", "html-img"},
        r \in {"absent", "no_xobject", "xobject"}, n \in 0..MaxImages }

InitImages ==
    /\ icfg \in { c \in ImageConfigs :
                    /\ c.parser = "PyMuPDF" => c.resources = "xobject"
                    /\ c.resources # "xobject" => c.n_images = 0 }
    /\ idx = 0
    /\ cur = <<>>
    /\ cur_out = NoOutcome
    /\ images = <<>>
    /\ ilog = <<>>
    /\ ipc = "start"
    /\ iret = <<>>
    /\ IdleMerge
    /\ IdleValidate
    /\ IdleParse
    /\ IdlePurge
    /\ IdleFormat
    /\ IdleLock
    /\ IdleConstruct

\* if not self.images_parser: return ""
ReturnNoImagesParser ==
    /\ ipc = "start"
    /\ ~icfg.images_parser
    /\ ipc' = "returned"
    /\ iret' = <<>>
    /\ UNCHANGED <<icfg, idx, cur, cur_out, images, ilog>>
    /\ UNCHANGED notImageVars

\* page["/Resources"] of a page without resources: KeyError, outside any try
RaiseNoResources ==
    /\ ipc = "start"
    /\ icfg.images_parser
    /\ icfg.parser = "PyPDF"
    /\ icfg.resources = "absent"
    /\ ipc' = "raised"
    /\ UNCHANGED <<icfg, idx, cur, cur_out, images, ilog, iret>>
    /\ UNCHANGED notImageVars

\* if "/XObject" not in page["/Resources"].keys(): return ""
ReturnNoXObject ==
    /\ ipc = "start"
    /\ icfg.images_parser
    /\ icfg.parser = "PyPDF"
    /\ icfg.resources = "no_xobject"
    /\ ipc' = "returned"
    /\ iret' = <<>>
    /\ UNCHANGED <<icfg, idx, cur, cur_out, images, ilog>>
    /\ UNCHANGED notImageVars

\* images = []; the loop is reached
EnterLoop ==
    /\ ipc = "start"
    /\ icfg.images_parser
    /\ icfg.resources = "xobject"
    /\ ipc' = "loop"
    /\ UNCHANGED <<icfg, idx, cur, cur_out, images, ilog, iret>>
    /\ UNCHANGED notImageVars

\* for obj_name in xObject / for img_info in img_list: the next image
ForNextImage(img) ==
    /\ ipc = "loop"
    /\ idx < icfg.n_images
    /\ cur' = img
    /\ cur_out' = NoOutcome
    /\ ipc' = "body"
    /\ UNCHANGED <<icfg, idx, images, ilog, iret>>
    /\ UNCHANGED notImageVars

\* the body of the loop for the image `cur`: its try block and its handlers
ProcessImageBody ==
    /\ ipc = "body"
    /\ LET out == ProcessImage(icfg.parser, cur, icfg.images_inner_format)
       IN  /\ cur_out' = out
           /\ idx' = idx + 1
           /\ IF out.status = "exception" /\ ~IsCaught(out.exc)
              THEN /\ ipc' = "raised"
                   /\ UNCHANGED <<images, ilog>>
              ELSE /\ ipc' = "continue"
                   /\ images' = IF out.status = "appended"
                                THEN Append(images, out.text)
                                ELSE images
                   /\ ilog' = Append(ilog,
                        [status |-> IF out.status = "exception"
                                    THEN "skipped" ELSE out.status,
                         text |-> out.text])
    /\ UNCHANGED <<icfg, cur, iret>>
    /\ UNCHANGED notImageVars

\* back to the for statement: the locals of the iteration are dropped
ContinueLoop ==
    /\ ipc = "continue"
    /\ cur' = <<>>
    /\ cur_out' = NoOutcome
    /\ ipc' = "loop"
    /\ UNCHANGED <<icfg, idx, images, ilog, iret>>
    /\ UNCHANGED notImageVars

\* the return after the loop
ReturnImages ==
    /\ ipc = "loop"
    /\ idx = icfg.n_images
    /\ ipc' = "returned"
    /\ iret' = ImagesReturnValue(images)
    /\ UNCHANGED <<icfg, idx, cur, cur_out, images, ilog>>
    /\ UNCHANGED notImageVars

NextImages ==
    \/ ReturnNoImagesParser
    \/ RaiseNoResources
    \/ ReturnNoXObject
    \/ EnterLoop
    \/ \E img \in ImagesOf(icfg.parser) : ForNextImage(img)
    \/ ProcessImageBody
    \/ ContinueLoop
    \/ ReturnImages

SpecImages == InitImages /\ [][NextImages]_vars

----------------------------------------------------------------------------
\* _purge_metadata and the document metadata of each parser

\* A mapping as a backend hands it over: its items in insertion order.  A
\* key is a str; pypdf keeps the leading "/" of the PDF names.
RawKey(slash, name) == IF slash THEN "/" \o name ELSE name
Item(k, v) == [k |-> k, v |-> v]

\* d[k] = v on such a mapping: an existing key keeps its position
RawSet(items, k, v) ==
    IF \E i \in DOMAIN items : items[i].k = k
    THEN [i \in DOMAIN items |->
            IF items[i].k = k THEN Item(k, v) ELSE items[i]]
    ELSE Append(items, Item(k, v))

RECURSIVE RawUnion(_, _)
\* a | b
RawUnion(a, b) ==
    IF b = <<>> THEN a
    ELSE RawUnion(RawSet(a, Head(b).k, Head(b).v), Tail(b))

\* the i-th character of a str (from 1), and s[i:] (from 0)
CharAt(s, i) == SubSeq(s, i, i)
StrFrom(s, i) == SubSeq(s, i + 1, Len(s))

UpperCase == "ABCDEFGHIJKLMNOPQRSTUVWXYZ"
LowerCase == "abcdefghijklmnopqrstuvwxyz"
LowerChar(c) ==
    IF \E i \in 1..Len(UpperCase) : CharAt(UpperCase, i) = c
    THEN CharAt(LowerCase, CHOOSE i \in 1..Len(UpperCase) : CharAt(UpperCase, i) = c)
    ELSE c

RECURSIVE StrLower(_)
\* k.lower()
StrLower(s) ==
    IF s = "" THEN "" ELSE LowerChar(CharAt(s, 1)) \o StrLower(StrFrom(s, 1))

\* if k.startswith("/"): k = k[1:]; k = k.lower()
KeyLower(k) ==
    StrLower(IF Len(k) > 0 /\ CharAt(k, 1) = "/" THEN StrFrom(k, 1) ELSE k)

\* str(v) of a value that is neither a str nor an int
PyStr(v) ==
    CASE v.type = "NoneType" -> "None"
      [] v.type = "bool" -> (IF v.n = 1 THEN "True" ELSE "False")
      [] OTHER -> v.s

RECURSIVE RemoveApostrophes(_)
\* v.replace("'", "")
RemoveApostrophes(s) ==
    IF s = "" THEN ""
    ELSE (IF CharAt(s, 1) = "'" THEN "" ELSE CharAt(s, 1))
           \o RemoveApostrophes(StrFrom(s, 1))

Digits == "0123456789"
IsDigit(c) == \E i \in 1..10 : CharAt(Digits, i) = c
DigitVal(c) == (CHOOSE i \in 1..10 : CharAt(Digits, i) = c) - 1
AllDigits(s) == \A i \in 1..Len(s) : IsDigit(CharAt(s, i))
RECURSIVE IntOf(_)
\* int(s) of a str of digits
IntOf(s) ==
    IF s = "" THEN 0
    ELSE 10 * IntOf(SubSeq(s, 1, Len(s) - 1)) + DigitVal(CharAt(s, Len(s)))

\* the directives %m %d %H %M %S of strptime take one or two digits,
\* within these ranges; two digits are tried first
FieldRange == << <<1, 12>>, <<1, 31>>, <<0, 23>>, <<0, 59>>, <<0, 61>> >>
FieldFits(f, s) ==
    /\ AllDigits(s)
    /\ Len(s) \in {1, 2}
    /\ IntOf(s) >= FieldRange[f][1]
    /\ IntOf(s) <= FieldRange[f][2]

\* %z: "Z", or a sign, two digits, an optional colon and minutes 00..59
ZoneFits(z) ==
    \/ z = "Z"
    \/ /\ Len(z) \in {5, 6}
       /\ CharAt(z, 1) \in {"+", "-"}
       /\ AllDigits(SubSeq(z, 2, 3))
       /\ Len(z) = 6 => CharAt(z, 4) = ":"
       /\ AllDigits(SubSeq(z, Len(z) - 1, Len(z)))
       /\ IntOf(SubSeq(z, Len(z) - 1, Len(z))) <= 59

\* the five field widths, as the regular expression of strptime finds
\* them: the first split, two digits before one and left fields first,
\* under which every field and the zone fit
Widths == [1..5 -> {2, 1}]
FieldStart(w, f) == 7 + ((IF f > 1 THEN w[1] ELSE 0) + (IF f > 2 THEN w[2] ELSE 0)
                         + (IF f > 3 THEN w[3] ELSE 0) + (IF f > 4 THEN w[4] ELSE 0)
                         + (IF f > 5 THEN w[5] ELSE 0))
FieldText(s, w, f) == SubSeq(s, FieldStart(w, f), FieldStart(w, f) + w[f] - 1)
SplitFits(s, w) ==
    /\ FieldStart(w, 6) <= Len(s) + 1
    /\ \A f \in 1..5 : FieldFits(f, FieldText(s, w, f))
    /\ ZoneFits(SubSeq(s, FieldStart(w, 6), Len(s)))
Prefers(w1, w2) ==
    \E f \in 1..5 : w1[f] > w2[f] /\ \A g \in 1..(f - 1) : w1[g] = w2[g]

\* two decimal digits of n < 100, and four of a year
Pad2(n) == CharAt(Digits, (n \div 10) + 1) \o CharAt(Digits, (n % 10) + 1)

DaysInMonth(y, m) ==
    IF m = 2
    THEN (IF y % 4 = 0 /\ (y % 100 # 0 \/ y % 400 = 0) THEN 29 ELSE 28)
    ELSE IF m \in {4, 6, 9, 11} THEN 30 ELSE 31

\* datetime.strptime(s, "D:%Y%m%d%H%M%S%z").isoformat("T") for a str
\* without blanks and without seconds in the zone; ok is FALSE where
\* Python raises ValueError.  The literal "D:" matches in either case.
Strptime(s) ==
    LET fits == { w \in Widths : SplitFits(s, w) }
        head == /\ Len(s) >= 6
                /\ StrLower(SubSeq(s, 1, 2)) = "d:"
                /\ AllDigits(SubSeq(s, 3, 6))
    IN  IF ~head \/ fits = {} THEN [ok |-> FALSE, iso |-> ""]
        ELSE LET w == CHOOSE v \in fits : \A u \in fits \ {v} : Prefers(v, u)
                 year == IntOf(SubSeq(s, 3, 6))
                 month == IntOf(FieldText(s, w, 1))
                 day == IntOf(FieldText(s, w, 2))
                 hour == IntOf(FieldText(s, w, 3))
                 minute == IntOf(FieldText(s, w, 4))
                 second == IntOf(FieldText(s, w, 5))
                 z == SubSeq(s, FieldStart(w, 6), Len(s))
                 zh == IF z = "Z" THEN 0 ELSE IntOf(SubSeq(z, 2, 3))
                 zm == IF z = "Z" THEN 0
                       ELSE IntOf(SubSeq(z, Len(z) - 1, Len(z)))
                 sign == IF z # "Z" /\ CharAt(z, 1) = "-" /\ zh + zm > 0
                         THEN "-" ELSE "+"
             IN  IF year < 1 \/ day > DaysInMonth(year, month) \/ second > 59
                    \/ zh > 23
                 THEN [ok |-> FALSE, iso |-> ""]
                 ELSE [ok |-> TRUE,
                       iso |-> SubSeq(s, 3, 6) \o "-" \o Pad2(month) \o "-"
                                 \o Pad2(day) \o "T" \o Pad2(hour) \o ":"
                                 \o Pad2(minute) \o ":" \o Pad2(second)
                                 \o sign \o Pad2(zh) \o ":" \o Pad2(zm)]

\* datetime.strptime(v.replace("'", ""), "D:%Y%m%d%H%M%S%z").isoformat("T")
\* -- faulty variant: the apostrophes are kept
ParsePdfDateKeepApostrophes(x) == Strptime(x)
ParsePdfDate(x) == Strptime(RemoveApostrophes(x))

\* the whitespace characters of the model
Whitespace == {" ", "\n", "\f", "\t", "\r"}
RECURSIVE StrLStrip(_)
StrLStrip(s) ==
    IF s # "" /\ CharAt(s, 1) \in Whitespace THEN StrLStrip(StrFrom(s, 1))
    ELSE s
RECURSIVE StrRStrip(_)
StrRStrip(s) ==
    IF s # "" /\ CharAt(s, Len(s)) \in Whitespace
    THEN StrRStrip(SubSeq(s, 1, Len(s) - 1)) ELSE s
\* v.strip()   -- faulty variants: leading whitespace only; one
\* character at most at each end
ValueStripLeading(x) == StrLStrip(x)
ValueStripOnce(x) ==
    LET l == IF x # "" /\ CharAt(x, 1) \in Whitespace THEN StrFrom(x, 1) ELSE x
    IN  IF l # "" /\ CharAt(l, Len(l)) \in Whitespace
        THEN SubSeq(l, 1, Len(l) - 1) ELSE l
ValueStrip(x) == StrRStrip(StrLStrip(x))

\* map_key
MapKey(k) == IF k = "page_count" THEN "total_pages" ELSE "source"

\* one turn of the loop of _purge_metadata, new_metadata keeping the order
\* in which its keys were inserted; an int under a date key has no
\* replace(): AttributeError, which the function does not catch
PurgeItem(acc, item) ==
    LET v == IF item.v.type \notin {"str", "int"}
             THEN StrV(PyStr(item.v)) ELSE item.v
        k == KeyLower(item.k)
    IN  IF acc.raised THEN acc
        ELSE IF k \in {"creationdate", "moddate"}
        THEN IF v.type = "int"
             THEN [raised |-> TRUE, value |-> acc.value]
             ELSE [raised |-> FALSE,
                   value |-> RawSet(acc.value, k,
                               IF ParsePdfDate(v.s).ok
                               THEN StrV(ParsePdfDate(v.s).iso) ELSE v)]
        ELSE IF k \in {"page_count", "file_path"}
        THEN [raised |-> FALSE,
              value |-> RawSet(RawSet(acc.value, MapKey(k), v), k, v)]
        ELSE IF v.type = "str"
        THEN [raised |-> FALSE,
              value |-> RawSet(acc.value, k, StrV(ValueStrip(v.s)))]
        ELSE [raised |-> FALSE, value |-> RawSet(acc.value, k, v)]

RECURSIVE PurgeLoop(_, _)
\* the loop over metadata.items(); new_metadata after each turn is bound
\* as a value before the next turn reads it
PurgeLoop(acc, items) ==
    IF items = <<>> THEN acc
    ELSE CHOOSE r \in { PurgeLoop(a, Tail(items)) :
                          a \in {PurgeItem(acc, Head(items))} } : TRUE

\* new_metadata when the loop ends, its keys in insertion order
purge_items(items) ==
    PurgeLoop([raised |-> FALSE, value |-> <<>>], items)

\* the same mapping with plain keys
RECURSIVE AsDict(_)
AsDict(items) ==
    IF items = <<>> THEN EmptyDict
    ELSE DictUnion((Head(items).k :> Head(items).v), AsDict(Tail(items)))

\* _purge_metadata(metadata): whether it raised, and the dict returned
purge_metadata(items) ==
    LET new_metadata == purge_items(items)
    IN  [raised |-> new_metadata.raised, value |-> AsDict(new_metadata.value)]

\* {"producer": name, "creator": name, "creationdate": ""}
DefaultMetadata(name) ==
    << Item(RawKey(FALSE, "producer"), StrV(name)),
       Item(RawKey(FALSE, "creator"), StrV(name)),
       Item(RawKey(FALSE, "creationdate"), StrV("")) >>

\* blob.source
BlobSource == StrV("doc.pdf")

\* the information dictionary of the document as each backend reports it:
\* none, or a producer, a creation date and a title that is not a string
\* (None for PyMuPDF); pypdf keeps the "/" of the keys, PyMuPDF spells
\* them in camel case.  pypdf and pdfminer hand over every entry of the
\* dictionary, whatever its key: "paged" is a document with an entry Page
\* that is a roman numeral
BackendInfo(parser, info) ==
    IF info = "empty" THEN <<>>
    ELSE IF info = "paged"
    THEN << Item(RawKey(parser = "PyPDF", "Page"), StrV("iv")) >>
    ELSE IF parser = "PyPDF"
    THEN << Item(RawKey(TRUE, "Producer"), StrV(" Acme ")),
            Item(RawKey(TRUE, "CreationDate"), StrV("D:20230102030405+01'00'")),
            Item(RawKey(TRUE, "Title"), NoneV) >>
    ELSE IF parser = "PyMuPDF"
    THEN << Item(RawKey(FALSE, "producer"), StrV(" Acme ")),
            Item(RawKey(FALSE, "creationDate"), StrV("D:20230102030405+01'00'")),
            Item(RawKey(FALSE, "title"), NoneV) >>
    ELSE << Item(RawKey(FALSE, "Producer"), StrV(" Acme ")),
            Item(RawKey(FALSE, "CreationDate"), StrV("D:20230102030405+01'00'")),
            Item(RawKey(FALSE, "Title"), NoneV) >>

\* the entries whose value is a str or an int
StrOrIntItems(items) == SelectSeq(items, LAMBDA it : it.v.type \in {"str", "int"})

\* doc_metadata of PyPDFParser.lazy_parse
PyPDFDocMetadata(cfg) ==
    purge_metadata(
        RawUnion(RawUnion(DefaultMetadata("PyPDF"),
                          BackendInfo("PyPDF", cfg.info)),
                 << Item(RawKey(FALSE, "source"), BlobSource),
                    Item(RawKey(FALSE, "total_pages"), IntV(cfg.n_pages)) >>))

\* doc_metadata of PDFMinerParser.lazy_parse; _get_metadata adds total_pages
PDFMinerDocMetadata(cfg) ==
    LET purged == purge_metadata(
                    RawUnion(DefaultMetadata("PDFMiner"),
                             RawSet(BackendInfo("PDFMiner", cfg.info),
                                    RawKey(FALSE, "total_pages"),
                                    IntV(cfg.n_pages))))
    IN  [raised |-> purged.raised,
         value |-> DictSet(purged.value, "source", BlobSource)]

\* PyMuPDFParser._extract_metadata
PyMuPDF_extract_metadata(cfg) ==
    LET info == BackendInfo("PyMuPDF", cfg.info)
        purged == purge_metadata(
                    RawUnion(
                      RawUnion(DefaultMetadata("PyMuPDF"),
                        << Item(RawKey(FALSE, "source"), BlobSource),
                           Item(RawKey(FALSE, "file_path"), BlobSource),
                           Item(RawKey(FALSE, "total_pages"),
                                IntV(cfg.n_pages)) >>),
                      StrOrIntItems(info)))
        dates == SelectSeq(info,
                    LAMBDA it : it.k \in {"modDate", "creationDate"})
    IN  [raised |-> purged.raised,
         value |-> DictUnion(purged.value, AsDict(dates))]

\* doc_metadata of PyMuPDFParser._lazy_parse
PyMuPDFDocMetadata(cfg) ==
    [raised |-> PyMuPDF_extract_metadata(cfg).raised,
     value |-> DictUnion(AsDict(DefaultMetadata("PyMuPDF")),
                         PyMuPDF_extract_metadata(cfg).value)]

\* doc_metadata of PyPDFium2Parser.lazy_parse
PyPDFium2DocMetadata(cfg) ==
    LET purged == purge_metadata(BackendInfo("PyPDFium2", cfg.info))
    IN  [raised |-> purged.raised,
         value |-> DictSet(
                     DictSet(DictUnion(AsDict(DefaultMetadata("PyPDFium2")),
                                       purged.value),
                             "source", BlobSource),
                     "total_pages", IntV(cfg.n_pages))]

\* the metadata of a record of PDFPlumberParser: nothing is normalised
PDFPlumberMetadata(cfg, page_number) ==
    DictUnion(
        ("source" :> BlobSource) @@ ("file_path" :> BlobSource)
          @@ ("page" :> IntV(page_number - 1))
          @@ ("total_pages" :> IntV(cfg.n_pages)),
        AsDict(StrOrIntItems(BackendInfo("PDFPlumber", cfg.info))))

\* the metadata of a record of AmazonTextractPDFParser ({"source", "page":
\* idx + 1}) and of DocumentIntelligenceParser ({"source", "page":
\* p.page_number}, the service numbering pages from 1)
\* -- faulty variant: the index of enumerate() taken as it is
TextractMetadataZeroBased(idx0) ==
    ("source" :> BlobSource) @@ ("page" :> IntV(idx0))
TextractMetadata(idx0) == ("source" :> BlobSource) @@ ("page" :> IntV(idx0 + 1))
DocumentIntelligenceMetadata(page_number) ==
    ("source" :> BlobSource) @@ ("page" :> IntV(page_number))

DocMetadataOf(cfg) ==
    CASE cfg.parser = "PyPDF" -> PyPDFDocMetadata(cfg)
      [] cfg.parser = "PDFMiner" -> PDFMinerDocMetadata(cfg)
      [] cfg.parser = "PyMuPDF" -> PyMuPDFDocMetadata(cfg)
      [] cfg.parser = "PyPDFium2" -> PyPDFium2DocMetadata(cfg)
      [] OTHER -> [raised |-> FALSE, value |-> EmptyDict]

----------------------------------------------------------------------------
\* The text of one page, parser by parser

DEFAULT_PAGES_DELIMITER == <<NL, "\f">>

\* str.strip(): whitespace removed at both ends
RECURSIVE LStrip(_)
LStrip(s) ==
    IF s # <<>> /\ Head(s) \in Whitespace THEN LStrip(Tail(s)) ELSE s
RECURSIVE RStrip(_)
RStrip(s) ==
    IF s # <<>> /\ s[Len(s)] \in Whitespace
    THEN RStrip(SubSeq(s, 1, Len(s) - 1)) ELSE s
Strip(s) == RStrip(LStrip(s))

\* the outcome of a step that returns a str or raises
TextOk(text) == [raised |-> FALSE, exc |-> "", text |-> text]
TextRaise(exc) == [raised |-> TRUE, exc |-> exc, text |-> <<>>]

RECURSIVE ImagesLoop(_, _, _, _)
\* the loop of the image extraction of PyPDFParser and PyMuPDFParser
\* over the images of a page
ImagesLoop(parser, imgs, format, acc) ==
    IF imgs = <<>> THEN TextOk(ImagesReturnValue(acc))
    ELSE LET out == ProcessImage(parser, Head(imgs), format)
         IN  IF out.status = "exception" /\ ~IsCaught(out.exc)
             THEN TextRaise(out.exc)
             ELSE ImagesLoop(parser, Tail(imgs), format,
                    IF out.status = "appended"
                    THEN Append(acc, out.text) ELSE acc)

\* PyPDFParser.extract_images_from_page
PyPDF_extract_images_from_page(cfg, page) ==
    IF ~cfg.images_parser THEN TextOk(<<>>)
    ELSE IF ~page.xobject THEN TextOk(<<>>)
    ELSE ImagesLoop("PyPDF", page.imgs, cfg.images_inner_format, <<>>)

\* text_from_page, images_from_page, _merge_text_and_extras(...).strip()
PyPDFPageText(cfg, page) ==
    LET images_from_page == PyPDF_extract_images_from_page(cfg, page)
    IN  IF images_from_page.raised THEN images_from_page
        ELSE TextOk(Strip(merge_text_and_extras(<<images_from_page.text>>,
                                                page.text)))

\* PyMuPDFParser._extract_images_from_page
PyMuPDF_extract_images_from_page(cfg, page) ==
    IF ~cfg.images_parser THEN TextOk(<<>>)
    ELSE ImagesLoop("PyMuPDF", page.imgs, cfg.images_inner_format, <<>>)

JOIN_TABLES == <<NL>>

\* table.to_markdown(), table.to_pandas().to_html(...) and
\* table.to_pandas().to_csv(...): one letter stands for each rendering
TableText(format) ==
    CASE format = "markdown" -> <<"M">>
      [] format = "html" -> <<"H">>
      [] OTHER -> <<"C">>

\* PyMuPDFParser._extract_tables_from_page: extract_tables is the
\* attribute of the parser, n_tables the length of tables_list
PyMuPDF_extract_tables_from_page(extract_tables, n_tables) ==
    IF extract_tables = NoneV THEN TextOk(<<>>)
    ELSE IF n_tables = 0 THEN TextOk(<<>>)
    ELSE IF extract_tables \in {StrV("markdown"), StrV("html"), StrV("csv")}
    THEN TextOk(JoinSeq(JOIN_TABLES,
                        [i \in 1..n_tables |-> TableText(extract_tables.s)]))
    ELSE TextRaise("ValueError")

\* PyMuPDFParser._get_page_content(...).strip(): only non-empty extras
PyMuPDF_get_page_content(cfg, page, extract_tables, n_tables) ==
    LET images_from_page == PyMuPDF_extract_images_from_page(cfg, page)
        tables_from_page ==
            PyMuPDF_extract_tables_from_page(extract_tables, n_tables)
        xs == (IF images_from_page.text # <<>>
               THEN <<images_from_page.text>> ELSE <<>>)
              \o (IF tables_from_page.text # <<>>
                  THEN <<tables_from_page.text>> ELSE <<>>)
    IN  IF images_from_page.raised THEN images_from_page
        ELSE IF tables_from_page.raised THEN tables_from_page
        ELSE TextOk(Strip(merge_text_and_extras(xs, page.text)))

\* the same for a parser built with extract_tables = None
PyMuPDFPageText(cfg, page) == PyMuPDF_get_page_content(cfg, page, NoneV, 0)

\* what the Visitor of PDFMinerParser writes for one LTImage
PDFMinerImageText(cfg, img) ==
    IF ~cfg.images_parser THEN TextOk(<<>>)
    ELSE IF img.encoded = "raise" THEN TextRaise("ExportError")
    ELSE IF img.caption.raises THEN TextRaise("RuntimeError")
    ELSE TextOk(format_inner_image(ImageBlobSource, img.caption.text,
                                   cfg.images_inner_format))

RECURSIVE PDFMinerRender(_, _, _)
\* render(ltpage): the items of the layout written to text_io in order,
\* here the text of the page and then its images
PDFMinerRender(cfg, imgs, text_io) ==
    IF imgs = <<>> THEN TextOk(text_io)
    ELSE LET t == PDFMinerImageText(cfg, Head(imgs))
         IN  IF t.raised THEN t
             ELSE PDFMinerRender(cfg, Tail(imgs), text_io \o t.text)

\* all_text = text_io.getvalue().strip(); in single mode a final "\f" is
\* cut off
PDFMinerPageText(cfg, page) ==
    LET rendered == PDFMinerRender(cfg, page.imgs, page.text)
        stripped == Strip(rendered.text)
    IN  IF rendered.raised THEN rendered
        ELSE IF cfg.mode = "page" THEN TextOk(stripped)
        ELSE IF stripped # <<>> /\ stripped[Len(stripped)] = "\f"
        THEN TextOk(SubSeq(stripped, 1, Len(stripped) - 1))
        ELSE TextOk(stripped)

RECURSIVE PyPDFium2ImagesLoop(_, _, _)
\* the loop of PyPDFium2Parser._extract_images_from_page: no try block
PyPDFium2ImagesLoop(cfg, imgs, str_images) ==
    IF imgs = <<>>
    THEN TextOk(FORMAT_IMAGE_STR(JoinSeq(JOIN_IMAGES, str_images)))
    ELSE LET image == Head(imgs)
         IN  IF image.size < 3
             THEN PyPDFium2ImagesLoop(cfg, Tail(imgs), str_images)
             ELSE IF image.caption.raises THEN TextRaise("RuntimeError")
             ELSE PyPDFium2ImagesLoop(cfg, Tail(imgs),
                    Append(str_images,
                           format_inner_image(ImageBlobSource,
                               image.caption.text, cfg.images_inner_format)))

\* PyPDFium2Parser._extract_images_from_page
PyPDFium2_extract_images_from_page(cfg, page) ==
    IF ~cfg.images_parser THEN TextOk(<<>>)
    ELSE IF page.imgs = <<>> THEN TextOk(<<>>)
    ELSE PyPDFium2ImagesLoop(cfg, page.imgs, <<>>)

\* all_text of a page of PyPDFium2Parser; page mode adds a final "\n"
PyPDFium2PageText(cfg, page) ==
    LET image_from_page == PyPDFium2_extract_images_from_page(cfg, page)
        stripped == Strip(merge_text_and_extras(<<image_from_page.text>>,
                                                page.text))
    IN  IF image_from_page.raised THEN image_from_page
        ELSE IF cfg.mode = "page"
                /\ (stripped = <<>> \/ stripped[Len(stripped)] # NL)
        THEN TextOk(stripped \o <<NL>>)
        ELSE TextOk(stripped)

\* Image.frombytes("1", (Width, Height), data) needs ceil(Width/8) bytes
\* per row; reshape(Height, Width, -1) needs a multiple of Height*Width
PlumberArrayOk(img) ==
    IF img.bits = 1
    THEN img.size = ((img.width + 7) \div 8) * img.height
    ELSE img.height * img.width > 0 /\ img.size % (img.height * img.width) = 0

RECURSIVE PlumberImagesLoop(_, _)
\* the loop of PDFPlumberParser._extract_images_from_page (no try block),
\* then extract_from_images_with_rapidocr on the images kept
PlumberImagesLoop(imgs, text) ==
    IF imgs = <<>> THEN TextOk(text)
    ELSE LET img == Head(imgs)
         IN  IF img.filter.name \in PDF_FILTER_WITHOUT_LOSS
                /\ ~PlumberArrayOk(img)
             THEN TextRaise("ValueError")
             ELSE IF img.filter.name
                       \notin PDF_FILTER_WITHOUT_LOSS \cup PDF_FILTER_WITH_LOSS
             THEN PlumberImagesLoop(Tail(imgs), text)
             ELSE IF img.caption.raises THEN TextRaise("RuntimeError")
             ELSE PlumberImagesLoop(Tail(imgs), text \o img.caption.text)

\* PDFPlumberParser._extract_images_from_page
PDFPlumber_extract_images_from_page(cfg, page) ==
    IF ~cfg.images_parser THEN TextOk(<<>>)
    ELSE PlumberImagesLoop(page.imgs, <<>>)

\* _process_page_content(page) + "\n" + _extract_images_from_page(page)
PDFPlumberPageText(cfg, page) ==
    LET images_text == PDFPlumber_extract_images_from_page(cfg, page)
    IN  IF images_text.raised THEN images_text
        ELSE TextOk(page.text \o <<NL>> \o images_text.text)

\* all_text of one page as the loop of the parser computes it
PageTextOf(cfg, page) ==
    CASE cfg.parser = "PyPDF" -> PyPDFPageText(cfg, page)
      [] cfg.parser = "PDFMiner" -> PDFMinerPageText(cfg, page)
      [] cfg.parser = "PyMuPDF" -> PyMuPDFPageText(cfg, page)
      [] cfg.parser = "PyPDFium2" -> PyPDFium2PageText(cfg, page)
      [] OTHER -> PDFPlumberPageText(cfg, page)

----------------------------------------------------------------------------
\* A traversal of one document by one parser (SpecParse)

\* a record in the hands of the caller: shares tells that its metadata is
\* the very dict the generator holds as doc_metadata, touched that the
\* caller has written into its metadata
Document(page_content, md) ==
    [page_content |-> page_content, metadata |-> md, shares |-> FALSE,
     touched |-> FALSE]

\* doc_metadata | extra: a new dict
\* -- faulty variant: doc_metadata.update(extra), the dict of the generator
PageMetadataInPlace(dm, extra) == [value |-> DictUnion(dm, extra), fresh |-> FALSE]
PageMetadata(dm, extra) == [value |-> DictUnion(dm, extra), fresh |-> TRUE]

Page(text, xobject, imgs) == [text |-> text, xobject |-> xobject, imgs |-> imgs]

PageTexts == { <<>>, <<"A">>, <<"A", NL, NL, "B", NL>> }

CaptionRaises == [encoded |-> "ok", caption |-> [raises |-> TRUE, text |-> <<>>]]

\* the images a page of the document may carry, parser by parser: for
\* PyPDF a 1x1 raw image of 3 bytes under a filter of the raw-pixel branch
\* and under FlateDecode, one of 2 bytes, one whose caption fails; for
\* PyMuPDF a 1x1 pixmap of 3 channels with 3 and with 2 bytes, one whose
\* caption fails; and so on
ParseImagesOf(parser) ==
    CASE parser = "PyPDF" ->
           { Image("Image", FilterName(f), 1, 1, 3, 0, "fail", DownstreamOk) :
               f \in {"ASCIIHexDecode", "FlateDecode"} }
           \cup { Image("Image", FilterName("ASCIIHexDecode"), 1, 1, 2, 0,
                        "fail", DownstreamOk),
                  Image("Image", FilterName("ASCIIHexDecode"), 1, 1, 3, 0,
                        "fail", CaptionRaises) }
      [] parser = "PyMuPDF" ->
           { Image("Image", FilterName(""), 1, 1, 3, 3, "fail", DownstreamOk),
             Image("Image", FilterName(""), 1, 1, 2, 3, "fail", DownstreamOk),
             Image("Image", FilterName(""), 1, 1, 3, 3, "fail", CaptionRaises) }
      [] parser = "PDFMiner" ->
           { Image("Image", FilterName("FlateDecode"), 1, 1, 3, 0, "fail", d) :
               d \in {DownstreamOk, CaptionRaises,
                      [encoded |-> "raise", caption |-> DownstreamOk.caption]} }
      [] parser = "PyPDFium2" ->
           { Image("Image", FilterName(""), 1, 1, 3, 0, "fail", DownstreamOk),
             Image("Image", FilterName(""), 1, 1, 2, 0, "fail", DownstreamOk),
             Image("Image", FilterName(""), 1, 1, 3, 0, "fail", CaptionRaises) }
      [] parser = "PDFPlumber" ->
           { Image("Image", FilterName(f), 1, 1, 3, 0, "fail", DownstreamOk) :
               f \in {"FlateDecode", "DCTDecode", "Crypt"} }
           \cup { Image("Image", FilterName("FlateDecode"), 1, 2, 3, 0, "fail",
                        DownstreamOk),
                  WithBits(Image("Image", FilterName("FlateDecode"), 1, 1, 1,
                                 0, "fail", DownstreamOk), 1),
                  Image("Image", FilterName("DCTDecode"), 1, 1, 3, 0, "fail",
                        CaptionRaises) }
      [] OTHER -> {}

\* the pages a document may hold: at most one image a page; a page of
\* pypdf may have no /XObject entry at all
PagesOf(parser) ==
    { Page(t, TRUE, imgs) :
        t \in PageTexts,
        imgs \in {<<>>} \cup { <<i>> : i \in ParseImagesOf(parser) } }
    \cup (IF parser = "PyPDF"
          THEN { Page(t, FALSE, <<>>) : t \in PageTexts } ELSE {})

ValidatingParsers == {"PyPDF", "PDFMiner", "PyMuPDF", "PyPDFium2"}
ImageParsers == ValidatingParsers \cup {"PDFPlumber"}
AllParsers == ImageParsers \cup {"AmazonTextract", "DocumentIntelligence"}

\* a parser, its options and the document: PDFPlumberParser,
\* AmazonTextractPDFParser and DocumentIntelligenceParser yield a record a
\* page and have no mode; the last two extract no image; images_parser
\* stands for extract_images of PDFPlumberParser; the document with an
\* entry Page is parsed by pypdf and pdfminer, without image extraction
ParseConfigs ==
    { c \in [parser : AllParsers, mode : {"page", "single"},
             images_parser : BOOLEAN,
             images_inner_format : {"text", "markdown-img"},
             info : {"empty", "full", "paged"}, n_pages : 0..MaxPages,
             pages_delimiter : {DEFAULT_PAGES_DELIMITER, <<"|">>}] :
        /\ c.info = "paged" =>
             /\ c.parser \in {"PyPDF", "PDFMiner"}
             /\ ~c.images_parser /\ c.images_inner_format = "text"
        /\ (c.parser \notin ValidatingParsers \/ c.mode = "page") =>
             c.pages_delimiter = DEFAULT_PAGES_DELIMITER
        /\ c.parser \notin ValidatingParsers =>
             c.mode = "page" /\ c.images_inner_format = "text"
        /\ c.parser \notin ImageParsers => ~c.images_parser }

NoError == [exc |-> "", stage |-> ""]

InitParse ==
    /\ pcfg \in ParseConfigs
    /\ doc_metadata = EmptyDict
    /\ pno = 0
    /\ pinput = <<>>
    /\ single_texts = <<>>
    /\ built = <<>>
    /\ records = <<>>
    /\ ppc = "start"
    /\ perror = NoError
    /\ IdleMerge
    /\ IdleValidate
    /\ IdleImages
    /\ IdlePurge
    /\ IdleFormat
    /\ IdleLock
    /\ IdleConstruct

\* the document is opened and doc_metadata is computed
OpenDocument ==
    /\ ppc = "start"
    /\ \E dm \in {DocMetadataOf(pcfg)} :
           IF dm.raised
           THEN /\ ppc' = "raised"
                /\ perror' = [exc |-> "AttributeError", stage |-> "metadata"]
                /\ UNCHANGED doc_metadata
           ELSE /\ ppc' = "pages"
                /\ doc_metadata' = dm.value
                /\ UNCHANGED perror
    /\ UNCHANGED <<pcfg, pno, pinput, single_texts, built, records>>
    /\ UNCHANGED notParseVars

\* yield Document(page_content=..., metadata=_validate_metadata(md)):
\* _validate_metadata returns the dict it was given
YieldValidated(page_content, md) ==
    LET v == validate_metadata(md.value)
    IN  /\ doc_metadata' = IF md.fresh THEN doc_metadata ELSE md.value
        /\ IF v.outcome = "returned"
           THEN /\ records' = Append(records,
                      [Document(page_content, v.value)
                         EXCEPT !.shares = ~md.fresh])
                /\ UNCHANGED <<ppc, perror>>
           ELSE /\ ppc' = "raised"
                /\ perror' = [exc |-> v.outcome, stage |-> "metadata"]
                /\ UNCHANGED records

\* one turn of the loop over the pages in a parser that validates: the
\* text of the page (t), then a record (page mode) or one more text kept
PageTurn(page, t, md) ==
    /\ ppc = "pages"
    /\ pno < pcfg.n_pages
    /\ pno' = pno + 1
    /\ pinput' = Append(pinput, page)
    /\ IF t.raised
       THEN /\ ppc' = "raised"
            /\ perror' = [exc |-> t.exc, stage |-> "image"]
            /\ UNCHANGED <<records, single_texts, doc_metadata>>
       ELSE IF pcfg.mode = "page"
       THEN /\ YieldValidated(t.text, md)
            /\ UNCHANGED single_texts
       ELSE /\ single_texts' = Append(single_texts, t.text)
            /\ UNCHANGED <<records, ppc, perror, doc_metadata>>
    /\ UNCHANGED <<pcfg, built>>
    /\ UNCHANGED notParseVars

\* PyPDFParser.lazy_parse, one page
PyPDFPage(page) ==
    /\ pcfg.parser = "PyPDF"
    /\ PageTurn(page, PyPDFPageText(pcfg, page),
                PageMetadata(doc_metadata,
                             ("page" :> IntV(pno))
                               @@ ("page_label" :> StrV("label"))))

\* PDFMinerParser.lazy_parse, one page
PDFMinerPage(page) ==
    /\ pcfg.parser = "PDFMiner"
    /\ PageTurn(page, PDFMinerPageText(pcfg, page),
                PageMetadata(doc_metadata, ("page" :> IntV(pno))))

\* PyMuPDFParser._lazy_parse, one page
PyMuPDFPage(page) ==
    /\ pcfg.parser = "PyMuPDF"
    /\ PageTurn(page, PyMuPDFPageText(pcfg, page),
                PageMetadata(doc_metadata, ("page" :> IntV(pno))))

\* PyPDFium2Parser.lazy_parse, one page
PyPDFium2Page(page) ==
    /\ pcfg.parser = "PyPDFium2"
    /\ PageTurn(page, PyPDFium2PageText(pcfg, page),
                PageMetadata(doc_metadata, ("page" :> IntV(pno))))

\* the single record after the last page: its metadata is doc_metadata
\* itself
YieldSingle ==
    /\ ppc = "pages"
    /\ pcfg.parser \in ValidatingParsers
    /\ pcfg.mode = "single"
    /\ pno = pcfg.n_pages
    /\ LET v == validate_metadata(doc_metadata)
       IN  IF v.outcome = "returned"
           THEN /\ records' = Append(records,
                      [Document(JoinSeq(pcfg.pages_delimiter, single_texts),
                                v.value) EXCEPT !.shares = TRUE])
                /\ ppc' = "done"
                /\ UNCHANGED perror
           ELSE /\ ppc' = "raised"
                /\ perror' = [exc |-> v.outcome, stage |-> "metadata"]
                /\ UNCHANGED records
    /\ UNCHANGED <<pcfg, doc_metadata, pno, pinput, single_texts, built>>
    /\ UNCHANGED notParseVars

\* PDFPlumberParser.lazy_parse: one element of the list it builds before
\* it yields anything
PDFPlumberPage(page) ==
    /\ ppc = "pages"
    /\ pcfg.parser = "PDFPlumber"
    /\ pno < pcfg.n_pages
    /\ pno' = pno + 1
    /\ pinput' = Append(pinput, page)
    /\ LET t == PDFPlumberPageText(pcfg, page)
       IN  IF t.raised
           THEN /\ ppc' = "raised"
                /\ perror' = [exc |-> t.exc, stage |-> "image"]
                /\ UNCHANGED built
           ELSE /\ built' = Append(built,
                      Document(t.text, PDFPlumberMetadata(pcfg, pno + 1)))
                /\ UNCHANGED <<ppc, perror>>
    /\ UNCHANGED <<pcfg, doc_metadata, single_texts, records>>
    /\ UNCHANGED notParseVars

\* yield from the list, once it is complete
PDFPlumberYield ==
    /\ ppc = "pages"
    /\ pcfg.parser = "PDFPlumber"
    /\ pno = pcfg.n_pages
    /\ built # <<>>
    /\ records' = Append(records, Head(built))
    /\ built' = Tail(built)
    /\ UNCHANGED <<pcfg, doc_metadata, pno, pinput, single_texts, ppc, perror>>
    /\ UNCHANGED notParseVars

\* AmazonTextractPDFParser.lazy_parse, one page
TextractPage(page) ==
    /\ ppc = "pages"
    /\ pcfg.parser = "AmazonTextract"
    /\ pno < pcfg.n_pages
    /\ pno' = pno + 1
    /\ pinput' = Append(pinput, page)
    /\ records' = Append(records, Document(page.text, TextractMetadata(pno)))
    /\ UNCHANGED <<pcfg, doc_metadata, single_texts, built, ppc, perror>>
    /\ UNCHANGED notParseVars

\* DocumentIntelligenceParser._generate_docs, one page
DocumentIntelligencePage(page) ==
    /\ ppc = "pages"
    /\ pcfg.parser = "DocumentIntelligence"
    /\ pno < pcfg.n_pages
    /\ pno' = pno + 1
    /\ pinput' = Append(pinput, page)
    /\ records' = Append(records,
          Document(page.text, DocumentIntelligenceMetadata(pno + 1)))
    /\ UNCHANGED <<pcfg, doc_metadata, single_texts, built, ppc, perror>>
    /\ UNCHANGED notParseVars

\* what the caller writes into the metadata of a record
CallerWrite(md) == DictSet(md, "producer", StrV("changed"))

\* between two pulls the caller of a validating parser (one built
\* without images_parser) writes into the metadata of the first record it
\* received; the write is seen through every name of the same dict
MutateRecord ==
    /\ ppc = "pages"
    /\ pcfg.parser \in ValidatingParsers
    /\ ~pcfg.images_parser
    /\ records # <<>>
    /\ ~records[1].touched
    /\ records' =
         [i \in DOMAIN records |->
            IF i = 1
            THEN [records[i] EXCEPT !.metadata = CallerWrite(@),
                                    !.touched = TRUE]
            ELSE IF records[1].shares /\ records[i].shares
            THEN [records[i] EXCEPT !.metadata = CallerWrite(@)]
            ELSE records[i]]
    /\ doc_metadata' = IF records[1].shares THEN CallerWrite(doc_metadata)
                       ELSE doc_metadata
    /\ UNCHANGED <<pcfg, pno, pinput, single_texts, built, ppc, perror>>
    /\ UNCHANGED notParseVars

\* the generator is exhausted
FinishPages ==
    /\ ppc = "pages"
    /\ pcfg.mode = "page"
    /\ pno = pcfg.n_pages
    /\ built = <<>>
    /\ ppc' = "done"
    /\ UNCHANGED <<pcfg, doc_metadata, pno, pinput, single_texts, built,
                   records, perror>>
    /\ UNCHANGED notParseVars

NextParse ==
    \/ OpenDocument
    \/ \E page \in PagesOf(pcfg.parser) : PyPDFPage(page)
    \/ \E page \in PagesOf(pcfg.parser) : PDFMinerPage(page)
    \/ \E page \in PagesOf(pcfg.parser) : PyMuPDFPage(page)
    \/ \E page \in PagesOf(pcfg.parser) : PyPDFium2Page(page)
    \/ \E page \in PagesOf(pcfg.parser) : PDFPlumberPage(page)
    \/ \E page \in PagesOf(pcfg.parser) : TextractPage(page)
    \/ \E page \in PagesOf(pcfg.parser) : DocumentIntelligencePage(page)
    \/ YieldSingle
    \/ PDFPlumberYield
    \/ MutateRecord
    \/ FinishPages

SpecParse == InitParse /\ [][NextParse]_vars

----------------------------------------------------------------------------
\* One call of _purge_metadata (SpecPurge)

\* the keys of the item added to the mapping
PurgeKeys ==
    {"/CreationDate", "creationDate", "ModDate", "/Producer", "Title",
     "//Subject", "page_count", "file_path"}

\* strings that look more or less like a PDF date
DateStrings ==
    { p \o y \o mo \o d \o t \o z :
        p \in {"D:", "d:", ""}, y \in {"2023", "2024"},
        mo \in {"01", "02", "13"}, d \in {"15", "30", "1"},
        t \in {"120000", "120060", "12000"},
        z \in {"+05'00'", "Z", "", "-08'00'", "+05:00", "+24'00'"} }

\* the values of the item added to the mapping
PurgeValues ==
    { StrV(x) : x \in DateStrings \cup {"", "yesterday", " Acme ", "PyPDF"} }
    \cup { IntV(3), NoneV, BoolV(TRUE) }

\* the mapping before the item is added: empty, or the defaults of a parser
PurgeBases == { <<>>, DefaultMetadata("PyPDF") }

InitPurge ==
    /\ purge_in \in PurgeBases
    /\ purge_out = <<>>
    /\ purge_pc = "input"
    /\ purge_again = <<>>
    /\ IdleMerge
    /\ IdleValidate
    /\ IdleImages
    /\ IdleParse
    /\ IdleConstruct
    /\ IdleLock
    /\ IdleFormat

\* the caller puts one more item into the mapping
AddItem(k, v) ==
    /\ purge_pc = "input"
    /\ purge_in' = RawSet(purge_in, k, v)
    /\ purge_pc' = "ready"
    /\ UNCHANGED <<purge_out, purge_again>>
    /\ UNCHANGED notPurgeVars

\* new_metadata = _purge_metadata(metadata)
CallPurge ==
    /\ purge_pc = "ready"
    /\ purge_out' = purge_metadata(purge_in)
    /\ purge_pc' = "done"
    /\ UNCHANGED <<purge_in, purge_again>>
    /\ UNCHANGED notPurgeVars

NextPurge ==
    \/ \E k \in PurgeKeys, v \in PurgeValues : AddItem(k, v)
    \/ CallPurge

SpecPurge == InitPurge /\ [][NextPurge]_vars

----------------------------------------------------------------------------
\* _purge_metadata called on a mapping, then on its own result (SpecRepurge)

\* the most items of the mapping
MaxItems == 2

\* the keys of the mapping: the canonical names and their synonyms in
\* several spellings, a date key, keys with one and two leading slashes
RepurgeKeys ==
    {"page_count", "Page_Count", "total_pages", "file_path", "source",
     "/CreationDate", "/Title", "//Subject"}

\* its values: strings and integers
RepurgeValues ==
    {StrV("  3 "), StrV("Acme"), StrV("D:20230115120000+05'00'"), IntV(5)}

InitRepurge ==
    /\ purge_in = <<>>
    /\ purge_out = <<>>
    /\ purge_pc = "input"
    /\ purge_again = <<>>
    /\ IdleMerge
    /\ IdleValidate
    /\ IdleImages
    /\ IdleParse
    /\ IdleConstruct
    /\ IdleLock
    /\ IdleFormat

\* metadata[k] = v, by the caller
PutItem(k, v) ==
    /\ purge_pc = "input"
    /\ Len(purge_in) < MaxItems
    /\ k \notin { purge_in[i].k : i \in DOMAIN purge_in }
    /\ purge_in' = Append(purge_in, Item(k, v))
    /\ UNCHANGED <<purge_out, purge_pc, purge_again>>
    /\ UNCHANGED notPurgeVars

\* once = _purge_metadata(metadata); the dict returned is kept with the
\* order of its keys, in which a later call iterates over it
PurgeOnce ==
    /\ purge_pc = "input"
    /\ purge_out' = purge_items(purge_in)
    /\ purge_pc' = IF purge_out'.raised THEN "raised" ELSE "once"
    /\ UNCHANGED <<purge_in, purge_again>>
    /\ UNCHANGED notPurgeVars

\* twice = _purge_metadata(once)
PurgeTwice ==
    /\ purge_pc = "once"
    /\ purge_again' = purge_items(purge_out.value)
    /\ purge_pc' = IF purge_again'.raised THEN "raised" ELSE "twice"
    /\ UNCHANGED <<purge_in, purge_out>>
    /\ UNCHANGED notPurgeVars

NextRepurge ==
    \/ \E k \in RepurgeKeys, v \in RepurgeValues : PutItem(k, v)
    \/ PurgeOnce
    \/ PurgeTwice

SpecRepurge == InitRepurge /\ [][NextRepurge]_vars

----------------------------------------------------------------------------
\* The construction of a parser, then one page parsed by it (SpecConstruct)

\* bool(v) of a Python value
ValueTruthy(v) ==
    CASE v.type = "NoneType" -> FALSE
      [] v.type = "str" -> v.s # ""
      [] OTHER -> v.n # 0

ValidModes == {StrV("single"), StrV("page")}
TableFormats == {StrV("markdown"), StrV("html"), StrV("csv")}

\* the arguments of __init__: images_parser is None or an image parser P
\* of the caller; extract_tables is an argument of PyMuPDFParser only and
\* concatenate_pages one of PDFMinerParser only
ConstructArgs ==
    { a \in [parser : ValidatingParsers,
             mode : ValidModes \cup {StrV("paged"), NoneV},
             extract_images : BOOLEAN,
             images_parser : {"None", "P"},
             extract_tables : TableFormats
                 \cup {NoneV, StrV("xml"), StrV(""), BoolV(FALSE)},
             concatenate_pages : {"None", "True", "False"}] :
        /\ a.parser # "PyMuPDF" => a.extract_tables = NoneV
        /\ a.parser # "PDFMiner" => a.concatenate_pages = "None" }

\* the outcome of __init__: the attributes of the parser, or ValueError
Built(self) == [raised |-> FALSE, self |-> self]
InitRaises == [raised |-> TRUE, self |-> <<>>]

\* __init__ of PyPDFParser, PDFMinerParser, PyMuPDFParser, PyPDFium2Parser
ParserInit(a) ==
    IF a.mode \notin ValidModes THEN InitRaises
    ELSE IF a.parser = "PyMuPDF" /\ ValueTruthy(a.extract_tables)
            /\ a.extract_tables \notin TableFormats
    THEN InitRaises
    ELSE Built([parser |-> a.parser,
                mode |-> IF a.concatenate_pages = "None" THEN a.mode.s
                         ELSE IF a.concatenate_pages = "True" THEN "single"
                         ELSE "page",
                extract_images |-> a.extract_images,
                images_parser |->
                    IF a.extract_images /\ a.images_parser = "None"
                    THEN "RapidOCRBlobParser" ELSE a.images_parser,
                extract_tables |-> a.extract_tables])

\* what lazy_parse reads of the parser: `if not self.images_parser` and
\* self.mode; self.extract_images is read nowhere
ConfigOf(self, images_parser) ==
    [parser |-> self.parser, mode |-> self.mode,
     images_parser |-> images_parser, images_inner_format |-> "text",
     info |-> "empty", n_pages |-> 1,
     pages_delimiter |-> DEFAULT_PAGES_DELIMITER]

\* all_text of one page for a parser with these attributes
PageOutcome(self, images_parser, page, n_tables) ==
    IF self.parser = "PyMuPDF"
    THEN PyMuPDF_get_page_content(ConfigOf(self, images_parser), page,
                                  self.extract_tables, n_tables)
    ELSE PageTextOf(ConfigOf(self, images_parser), page)

\* the number of tables find_tables reports on a page
TableCounts(parser) == IF parser = "PyMuPDF" THEN 0..MaxTables ELSE {0}

InitConstruct ==
    /\ cargs \in ConstructArgs
    /\ cself = <<>>
    /\ cpc = "new"
    /\ cout = <<>>
    /\ IdleMerge
    /\ IdleValidate
    /\ IdleImages
    /\ IdleParse
    /\ IdlePurge
    /\ IdleFormat
    /\ IdleLock

\* parser = XParser(**cargs)
Construct ==
    /\ cpc = "new"
    /\ IF ParserInit(cargs).raised
       THEN cpc' = "raised" /\ UNCHANGED cself
       ELSE cpc' = "built" /\ cself' = ParserInit(cargs).self
    /\ UNCHANGED <<cargs, cout>>
    /\ UNCHANGED notConstructVars

\* the first page of a document in parser.lazy_parse(blob)
ParsePage(page, n_tables) ==
    /\ cpc = "built"
    /\ cout' = [page |-> page, n_tables |-> n_tables,
                result |-> PageOutcome(cself, cself.images_parser # "None",
                                       page, n_tables)]
    /\ cpc' = IF cout'.result.raised THEN "parse_raised" ELSE "parsed"
    /\ UNCHANGED <<cargs, cself>>
    /\ UNCHANGED notConstructVars

NextConstruct ==
    \/ Construct
    \/ \E page \in PagesOf(cargs.parser), n_tables \in TableCounts(cargs.parser) :
         ParsePage(page, n_tables)

SpecConstruct == InitConstruct /\ [][NextConstruct]_vars

----------------------------------------------------------------------------
\* Traversals under the class-wide locks (SpecLock)

LockedParsers == {"PyMuPDF", "PyPDFium2"}
Traversals == 1..MaxTraversals
Threads == {"main", "worker"}

\* the lock a traversal of a class takes: PyMuPDFParser._lock or
\* PyPDFium2Parser._lock, one threading.Lock() per class
LockOf(parser) == parser

\* a thread blocked in _lock.acquire() runs nothing else
Blocked(thread) ==
    \E t \in Traversals : trav[t].pc = "waiting" /\ trav[t].thread = thread

\* the generator leaves the with block: the lock is released
Release(t) == [lock EXCEPT ![LockOf(trav[t].parser)] = 0]

\* -- faulty variant: the lock is given back at every yield
LockAtYieldReleased(t) == Release(t)
\* the generator is suspended at a yield inside the with block: the lock
\* stays with it
LockAtYield(t) == [lock EXCEPT ![LockOf(trav[t].parser)] = t]

\* a generator: its class, its position, the record at whose yield it is
\* suspended (0 when it is not), and, while it waits for the lock, the
\* thread that waits and the traversal that held the lock then
Generator(parser, pc, at, thread, blocked_by) ==
    [parser |-> parser, pc |-> pc, at |-> at, thread |-> thread,
     blocked_by |-> blocked_by]

InitLock ==
    /\ lock = [l \in LockedParsers |-> 0]
    /\ trav \in [Traversals ->
                   { Generator(p, "created", 0, "", 0) : p \in LockedParsers }]
    /\ IdleMerge
    /\ IdleValidate
    /\ IdleImages
    /\ IdleParse
    /\ IdlePurge
    /\ IdleFormat
    /\ IdleConstruct

\* the generator runs inside the with block up to its next yield (a
\* record), to its end, or to an exception
RunToNextYield(t) ==
    \/ /\ trav[t].at < MaxYields
       /\ trav' = [trav EXCEPT
             ![t] = Generator(@.parser, "suspended", @.at + 1, "", 0)]
       /\ lock' = LockAtYield(t)
    \/ \E end \in {"done", "raised"} :
         /\ trav' = [trav EXCEPT ![t] = Generator(@.parser, end, 0, "", 0)]
         /\ lock' = Release(t)

\* the first next() on the generator, in some thread: `with
\* XParser._lock:` is reached; the thread is blocked there while another
\* traversal holds the lock
FirstPull(t, thread) ==
    /\ trav[t].pc = "created"
    /\ ~Blocked(thread)
    /\ IF lock[LockOf(trav[t].parser)] = 0
       THEN RunToNextYield(t)
       ELSE /\ trav' = [trav EXCEPT
                  ![t] = Generator(@.parser, "waiting", 0, thread,
                                   lock[LockOf(@.parser)])]
            /\ UNCHANGED lock
    /\ UNCHANGED notLockVars

\* _lock.acquire() returns in the blocked thread
Acquire(t) ==
    /\ trav[t].pc = "waiting"
    /\ lock[LockOf(trav[t].parser)] = 0
    /\ RunToNextYield(t)
    /\ UNCHANGED notLockVars

\* a later next() on the generator, in some thread
Pull(t, thread) ==
    /\ trav[t].pc = "suspended"
    /\ ~Blocked(thread)
    /\ RunToNextYield(t)
    /\ UNCHANGED notLockVars

\* generator.close(), in some thread: GeneratorExit is raised at the
\* yield and leaves the with block; a generator never started holds
\* nothing
Close(t, thread) ==
    /\ trav[t].pc \in {"created", "suspended"}
    /\ ~Blocked(thread)
    /\ trav' = [trav EXCEPT ![t] = Generator(@.parser, "closed", 0, "", 0)]
    /\ lock' = IF trav[t].pc = "suspended" THEN Release(t) ELSE lock
    /\ UNCHANGED notLockVars

NextLock ==
    \/ \E t \in Traversals, thread \in Threads : FirstPull(t, thread)
    \/ \E t \in Traversals : Acquire(t)
    \/ \E t \in Traversals, thread \in Threads : Pull(t, thread)
    \/ \E t \in Traversals, thread \in Threads : Close(t, thread)

SpecLock == InitLock /\ [][NextLock]_vars

\* the same traversals when a thread blocked in _lock.acquire() gets the
\* lock once it stays free; nothing obliges a caller to pull again from a
\* generator or to close it
AcquireFairness == \A t \in Traversals : WF_vars(Acquire(t))
SpecLockLive == InitLock /\ [][NextLock]_vars /\ AcquireFairness

----------------------------------------------------------------------------
\* One call of _format_inner_image (SpecFormat)

\* blob.source or "#": None and "" both give "#"
SourceOrHash(source) == IF source = <<>> THEN <<"#">> ELSE source

\* the characters of a caption: a letter, and those the formats treat
CaptionChars == {"a", "]", "\"", "<"}

\* the captions of at most MaxCaptionLen characters
CaptionTextsUpTo(n) == UNION { [1..k -> CaptionChars] : k \in 0..n }

InitFormat ==
    /\ fmt_in \in [content : CaptionTextsUpTo(MaxCaptionLen),
                   format : {"text", "markdown-img", "html-img"},
                   source : {<<>>, <<"i">>}]
    /\ fmt_out = <<>>
    /\ fmt_pc = "input"
    /\ IdleMerge
    /\ IdleValidate
    /\ IdleImages
    /\ IdleParse
    /\ IdlePurge
    /\ IdleConstruct
    /\ IdleLock

\* content = _format_inner_image(blob, content, format)
CallFormat ==
    /\ fmt_pc = "input"
    /\ fmt_out' = format_inner_image(SourceOrHash(fmt_in.source),
                                     fmt_in.content, fmt_in.format)
    /\ fmt_pc' = "done"
    /\ UNCHANGED fmt_in
    /\ UNCHANGED notFormatVars

NextFormat == CallFormat

SpecFormat == InitFormat /\ [][NextFormat]_vars

----------------------------------------------------------------------------
\* Properties of the merger (SpecMerge)

\* the auxiliary content of the call: the non-empty entries joined by "\n\n"
JoinedAux == JoinSeq(<<NL, NL>>, SelectSeq(extras, LAMBDA x : x # <<>>))

HasBlankLine(s) == \E i \in 1..(Len(s) - 1) : s[i] = NL /\ s[i + 1] = NL

\* C3: with no auxiliary content (an empty extras list, or a list of
\* empty strings only) the merger returns the page text unchanged.
C3_NoAuxiliaryReturnsText ==
    (mpc = "merged" /\ \A i \in 1..Len(extras) : extras[i] = <<>>)
        => all_text = text_from_page

C3_Witness ==
    /\ mpc = "merged"
    /\ extras = << <<>>, <<>> >>
    /\ HasBlankLine(text_from_page)
    /\ all_text = text_from_page

\* C4: a text without any "\n\n" and non-empty auxiliary content J gives
\* exactly text + "\n\n" + J.
C4_FallbackAppends ==
    (mpc = "merged" /\ ~HasBlankLine(text_from_page) /\ JoinedAux # <<>>)
        => all_text = text_from_page \o <<NL, NL>> \o JoinedAux

C4_Witness ==
    /\ mpc = "merged"
    /\ text_from_page = <<"A", NL, "B">>
    /\ extras = << <<"X">> >>
    /\ all_text = <<"A", NL, "B", NL, NL, "X">>

\* "A\n\n\nB\n\nC"
ExampleText == <<"A", NL, NL, NL, "B", NL, NL, "C">>

\* C5: for "A\n\n\nB\n\nC" and the block "X", X is inserted inside the
\* boundary between A and B (after a delimiter, before the rest of that
\* boundary and "B\n\nC"); the text before and after the splice is kept.
C5_ExampleSplicedBetweenAAndB ==
    (mpc = "merged" /\ text_from_page = ExampleText /\ extras = << <<"X">> >>)
        => \E d \in {PARAGRAPH_DELIMITER[i] : i \in 1..Len(PARAGRAPH_DELIMITER)} :
             \E p \in 1..(4 - Len(d)) :
                all_text = SubSeq(ExampleText, 1, p) \o d \o <<"X">>
                             \o SubSeq(ExampleText, p + 1, Len(ExampleText))

C5_Witness ==
    /\ mpc = "merged"
    /\ text_from_page = ExampleText
    /\ extras = << <<"X">> >>
    /\ all_text = <<"A", NL, NL, NL, "X", NL, NL, NL, "B", NL, NL, "C">>

\* the paragraph boundaries of the page text: maximal runs of two or more
\* newlines
Boundaries == { r \in NewlineRuns(text_from_page) : r[2] - r[1] >= 1 }
LastBoundary == CHOOSE r \in Boundaries : \A q \in Boundaries : q[1] <= r[1]
PenultimateBoundary ==
    CHOOSE r \in Boundaries \ {LastBoundary} :
        \A q \in Boundaries \ {LastBoundary} : q[1] <= r[1]

\* the result is the text with delimiter + auxiliary content inserted at a
\* position of the run r
SplicedIn(r) ==
    \E d \in {PARAGRAPH_DELIMITER[i] : i \in 1..Len(PARAGRAPH_DELIMITER)} :
        \E p \in (r[1] - 1)..(r[2] - Len(d)) :
            all_text = SubSeq(text_from_page, 1, p) \o d \o JoinedAux
                         \o SubSeq(text_from_page, p + 1, Len(text_from_page))

\* every boundary is a run of at most four newlines, so that no single
\* run holds two occurrences of a delimiter side by side
ShortBoundaries ==
    \A r \in Boundaries : r[2] - r[1] + 1 <= Len(PARAGRAPH_DELIMITER[1]) + 1

\* C6 as stated: with two or more boundaries the auxiliary content is
\* spliced at the second-to-last boundary (not at the last, not earlier);
\* with exactly one boundary, at that boundary.
C6_SplicedAtPenultimate ==
    (mpc = "merged" /\ JoinedAux # <<>>) =>
        /\ Cardinality(Boundaries) >= 2 =>
              /\ SplicedIn(PenultimateBoundary)
              /\ \A r \in Boundaries \ {PenultimateBoundary} : ~SplicedIn(r)
        /\ Cardinality(Boundaries) = 1 =>
              \A r \in Boundaries : SplicedIn(r)

\* C6 amended: with exactly one boundary the content is spliced at it;
\* with two or more boundaries of at most four newlines each it is spliced
\* at a boundary that is never the last one, and with exactly two such
\* boundaries that is the second-to-last; with three or more it may be an
\* earlier one, because the "\n\n\n" delimiter is searched before "\n\n".
C6_NeverAtLastBoundary ==
    (mpc = "merged" /\ JoinedAux # <<>>) =>
        /\ Cardinality(Boundaries) = 1 =>
              \A r \in Boundaries : SplicedIn(r)
        /\ (Cardinality(Boundaries) >= 2 /\ ShortBoundaries) =>
              /\ \E r \in Boundaries \ {LastBoundary} : SplicedIn(r)
              /\ ~SplicedIn(LastBoundary)
        /\ (Cardinality(Boundaries) = 2 /\ ShortBoundaries) =>
              SplicedIn(PenultimateBoundary)

\* three boundaries, spliced before the second-to-last one
C6_Witness ==
    /\ mpc = "merged"
    /\ JoinedAux # <<>>
    /\ Cardinality(Boundaries) = 3
    /\ ShortBoundaries
    /\ ~SplicedIn(PenultimateBoundary)
    /\ \E r \in Boundaries \ {LastBoundary, PenultimateBoundary} : SplicedIn(r)

----------------------------------------------------------------------------
\* Properties of _validate_metadata (SpecValidate)

\* the mapping has the five canonical keys and, if it has a page, the page
\* is an integer (a Python int, which a bool is)
MeetsContract(m) ==
    /\ \A k \in {"source", "total_pages", "creationdate", "creator",
                 "producer"} : k \in DOMAIN m
    /\ "page" \in DOMAIN m => m["page"].type \in {"int", "bool"}

\* C2: _validate_metadata returns the mapping unchanged when it has the
\* five canonical keys and no page or an integer page; in every other
\* case it raises ValueError.
C2_ValidateReturnsOrRaises ==
    vpc = "done" =>
        IF MeetsContract(metadata)
        THEN voutcome = "returned" /\ vresult = metadata
        ELSE voutcome = "ValueError"

\* all canonical keys, page = "3": the page-type failure
C2_Witness ==
    /\ vpc = "done"
    /\ STD_METADATA_KEYS \subseteq DOMAIN metadata
    /\ "page" \in DOMAIN metadata
    /\ metadata["page"] = StrV("3")
    /\ voutcome = "ValueError"
    /\ verror = "The PDF metadata page must be a integer."

----------------------------------------------------------------------------
\* Properties of the image extraction of a page (SpecImages)

\* the image just processed went through the raw-pixel branch of PyPDFParser
OnRawPixelPath ==
    /\ ipc = "continue"
    /\ icfg.parser = "PyPDF"
    /\ cur.subtype = "Image"
    /\ cur.filter.form \in {"name", "array"}
    /\ cur.filter.name \in {"ASCII85Decode", "A85", "ASCIIHexDecode", "AHx"}

\* C7: on the raw-pixel branch of PyPDFParser, a buffer of n > 0 bytes with
\* height h > 0 and width w > 0 is reshaped to (h, w, c) exactly when
\* n = h*w*c for some c in {1,3,4}; otherwise, and when one of h, w, n is 0,
\* the image is skipped and the loop goes on without an exception; every
\* reshaped image has n = h*w*c with c in {1,3,4}.
C7_ReshapedIffValidChannels ==
    /\ ipc = "raised" => idx = 0
    /\ OnRawPixelPath =>
         LET h == cur.height
             w == cur.width
             n == cur.size
             fits == h > 0 /\ w > 0 /\ n > 0
                     /\ \E c \in {1, 3, 4} : n = h * w * c
         IN  /\ (cur_out.array = "reshaped") <=> fits
             /\ cur_out.array = "reshaped" =>
                  /\ cur_out.shape \in { <<h, w, c>> : c \in {1, 3, 4} }
                  /\ n = h * w * cur_out.shape[3]
             /\ ~fits =>
                  /\ cur_out.status = "skipped"
                  /\ ilog[idx].status = "skipped"
                  /\ cur_out.array = "none"

C7_Witness ==
    /\ OnRawPixelPath
    /\ cur.height = 2
    /\ cur.width = 1
    /\ cur.size = 6
    /\ cur_out.array = "reshaped"
    /\ cur_out.shape = <<2, 1, 3>>

\* the captions appended to `images`, from the log of the loop
CaptionTexts(log) ==
    LET kept == SelectSeq(log, LAMBDA e : e.status = "appended")
    IN  [i \in 1..Len(kept) |-> kept[i].text]

\* C8: in the image extraction of PyPDFParser and PyMuPDFParser, an image
\* that fails a check or raises an exception contributes no caption, the
\* loop still visits every image of the page in order, and the function
\* returns the captions of the images that succeeded.
C8_FailedImageIsSkipped ==
    /\ ipc = "raised" => idx = 0
    /\ ipc \in {"loop", "body", "continue", "returned"} =>
         /\ Len(ilog) = idx
         /\ images = CaptionTexts(ilog)
    /\ (ipc = "continue" /\ cur_out.status \in {"skipped", "exception"}) =>
         /\ ilog[idx].status = "skipped"
         /\ ilog[idx].text = <<>>
    /\ (ipc = "returned" /\ icfg.images_parser /\ icfg.resources = "xobject") =>
         /\ idx = icfg.n_images
         /\ iret = FORMAT_IMAGE_STR(
                     JoinSeq(JOIN_IMAGES, FilterNonEmpty(CaptionTexts(ilog))))

C8_Witness ==
    /\ ipc = "returned"
    /\ icfg.parser = "PyPDF"
    /\ icfg.images_inner_format = "text"
    /\ icfg.n_images = 2
    /\ Len(ilog) = 2
    /\ ilog[1].status = "skipped"
    /\ ilog[2].status = "appended"
    /\ iret = <<NL, NL, "T", NL, NL>>

----------------------------------------------------------------------------
\* Properties of the traversal of a document (SpecParse)

\* C1: every record of every parser, in page mode or single mode, has a
\* metadata mapping with the five keys source, total_pages, creationdate,
\* creator and producer, and a page entry, if there is one, is an integer.
C1_CanonicalKeysInEveryRecord ==
    \A i \in DOMAIN records :
        /\ {"source", "total_pages", "creationdate", "creator", "producer"}
             \subseteq DOMAIN records[i].metadata
        /\ "page" \in DOMAIN records[i].metadata =>
             records[i].metadata["page"].type \in {"int", "bool"}

\* C9: in PyPDF, PDFMiner, PyMuPDF, PyPDFium2 and PDFPlumber a failure
\* while an image is rebuilt or captioned never ends the traversal: no
\* exception of the image processing leaves lazy_parse, and a traversal
\* that is over has yielded a record for every page (page mode) or the
\* record of the document (single mode).
C9_ImageFailureNeverLosesRecord ==
    pcfg.parser \in {"PyPDF", "PDFMiner", "PyMuPDF", "PyPDFium2", "PDFPlumber"}
    => /\ ~(ppc = "raised" /\ perror.stage = "image")
       /\ ppc = "done" =>
            Len(records) = IF pcfg.mode = "page" THEN pcfg.n_pages ELSE 1

\* sub occurs in s
Contains(s, sub) ==
    \E p \in 0..(Len(s) - Len(sub)) : SubSeq(s, p + 1, p + Len(sub)) = sub

\* a page with exactly one image, of 3 channels (length = height * width
\* * 3), that is re-encoded and for which the image parser returns a
\* non-empty caption
OneValidThreeChannelImage(page) ==
    /\ page.xobject
    /\ Len(page.imgs) = 1
    /\ page.imgs[1].subtype = "Image"
    /\ page.imgs[1].height > 0
    /\ page.imgs[1].width > 0
    /\ page.imgs[1].size = page.imgs[1].height * page.imgs[1].width * 3
    /\ page.imgs[1].encoded = "ok"
    /\ ~page.imgs[1].caption.raises
    /\ page.imgs[1].caption.text # <<>>

\* C10: in page mode with the 'text' inner format, PyPDFParser and
\* PyMuPDFParser put the caption T of the one valid raw 3-channel image of
\* a page into the page_content of that page, where the merger splices it.
C10_CaptionInPageContent ==
    (/\ pcfg.parser \in {"PyPDF", "PyMuPDF"}
     /\ pcfg.mode = "page"
     /\ pcfg.images_parser
     /\ pcfg.images_inner_format = "text")
    => \A i \in DOMAIN records :
         OneValidThreeChannelImage(pinput[i]) =>
           /\ Contains(records[i].page_content, pinput[i].imgs[1].caption.text)
           /\ records[i].page_content =
                Strip(merge_text_and_extras(
                        << <<NL, NL>> \o pinput[i].imgs[1].caption.text
                             \o <<NL, NL>> >>,
                        pinput[i].text))

----------------------------------------------------------------------------
\* Properties of _purge_metadata (SpecPurge)

\* the item added last, once the call has returned
PurgedItem == purge_in[Len(purge_in)]

\* the lowercased key of a date entry, for the spellings of the model
DateKeyOf(k) ==
    CASE k \in {"/CreationDate", "creationDate"} -> "creationdate"
      [] k = "ModDate" -> "moddate"
      [] OTHER -> ""

\* C11: _purge_metadata maps ("/CreationDate", "D:20230115120000+05'00'")
\* to creationdate = 2023-01-15T12:00:00+05:00, and stores a creationdate
\* or moddate string that is no date of the pattern unchanged under the
\* lowercased key.
C11_DateNormalised ==
    (purge_pc = "done" /\ DateKeyOf(PurgedItem.k) # ""
       /\ PurgedItem.v.type = "str")
    => LET k == DateKeyOf(PurgedItem.k)
           v == PurgedItem.v.s
       IN  /\ ~purge_out.raised
           /\ k \in DOMAIN purge_out.value
           /\ PurgedItem.k \notin DOMAIN purge_out.value
           /\ (PurgedItem.k = "/CreationDate"
                 /\ v = "D:20230115120000+05'00'")
                => purge_out.value[k] = StrV("2023-01-15T12:00:00+05:00")
           /\ (v \in {"", "yesterday", " Acme ", "20230115120000+05'00'"}
                 \/ ~ParsePdfDate(v).ok)
                => purge_out.value[k] = StrV(v)

C11_Witness ==
    /\ purge_pc = "done"
    /\ PurgedItem = Item("/CreationDate", StrV("D:20230115120000+05'00'"))
    /\ purge_out.value["creationdate"] = StrV("2023-01-15T12:00:00+05:00")

----------------------------------------------------------------------------
\* Properties of the mode option (SpecParse)

\* the traversal is over: the generator is exhausted or has raised
TraversalOver == ppc \in {"done", "raised"}

\* the records of a traversal in page mode: one per page, in page order
PageModeRecords ==
    /\ Len(records) = pcfg.n_pages
    /\ \A i \in DOMAIN records :
         /\ records[i].page_content = PageTextOf(pcfg, pinput[i]).text
         /\ records[i].metadata["page"] = IntV(i - 1)

\* the record of a traversal in single mode
SingleModeRecord ==
    /\ Len(records) = 1
    /\ Len(pinput) = pcfg.n_pages
    /\ records[1].page_content =
         JoinSeq(pcfg.pages_delimiter,
                 [i \in DOMAIN pinput |-> PageTextOf(pcfg, pinput[i]).text])
    /\ "page" \notin DOMAIN records[1].metadata
    /\ pcfg.n_pages = 0 => records[1].page_content = <<>>

\* C12: a parser with a mode option emits one record per page in page
\* order in mode "page"; in mode "single" it emits exactly one record,
\* only after every page has been processed, whose content is the
\* contents of the pages joined by pages_delimiter, without a page number,
\* and with empty content for a document without pages.
C12_ModeRecords ==
    pcfg.parser \in ValidatingParsers
    => /\ (pcfg.mode = "single" /\ records # <<>>) => pno = pcfg.n_pages
       /\ TraversalOver
            => IF pcfg.mode = "page" THEN PageModeRecords
               ELSE SingleModeRecord

----------------------------------------------------------------------------
\* Properties of the page numbers (SpecParse)

ZeroBasedParsers == {"PyPDF", "PDFMiner", "PyMuPDF", "PyPDFium2", "PDFPlumber"}

\* the page numbers of the records yielded so far start at first and grow
\* by one
PagesNumberedFrom(first) ==
    \A i \in DOMAIN records :
        records[i].metadata["page"] = IntV(first + i - 1)

----------------------------------------------------------------------------
\* Properties of the constructors (SpecConstruct)

\* an argument the documentation of the constructors rules out
InvalidArgs ==
    \/ cargs.mode \notin ValidModes
    \/ cargs.parser = "PyMuPDF"
         /\ cargs.extract_tables \notin TableFormats \cup {NoneV}

\* C14: constructing PyPDFParser, PDFMinerParser, PyMuPDFParser or
\* PyPDFium2Parser with a mode other than "single" or "page", or
\* PyMuPDFParser with extract_tables other than None, "markdown", "html"
\* or "csv", raises ValueError at construction; no invalid value is
\* accepted by the constructor and rejected only during parsing.
C14_InvalidOptionsRejectedAtConstruction ==
    /\ (cpc \notin {"idle", "new"} /\ InvalidArgs) => cpc = "raised"
    /\ cpc = "parse_raised" => cout.result.exc # "ValueError" \/ cout.n_tables = 0

----------------------------------------------------------------------------
\* Properties of the class-wide locks (SpecLock)

\* the traversals of a class that are between their first record and
\* their end
Active(parser) ==
    { t \in Traversals :
        trav[t].parser = parser /\ trav[t].pc = "suspended" }

\* C15: the lock of PyMuPDFParser, and independently that of
\* PyPDFium2Parser, is taken at the first pull of a traversal and held,
\* also while the generator is suspended between pulls, until the
\* generator is exhausted, raises or is closed; so at most one traversal
\* of a class is under way at a time, and a traversal of one class never
\* keeps one of the other class waiting.
C15_LockHeldForWholeTraversal ==
    \A t \in Traversals :
        LET l == LockOf(trav[t].parser)
        IN  /\ trav[t].pc = "suspended" <=> lock[l] = t
            /\ trav[t].pc \in {"created", "waiting", "done", "raised",
                               "closed"} => lock[l] # t
            /\ Cardinality(Active(trav[t].parser)) <= 1
            /\ trav[t].pc = "waiting" =>
                 trav[trav[t].blocked_by].parser = trav[t].parser

C15_Witness ==
    \E t1, t2, t3 \in Traversals :
        /\ trav[t1].parser = "PyMuPDF" /\ lock["PyMuPDF"] = t1
        /\ trav[t1].at = 2
        /\ trav[t2].parser = "PyMuPDF" /\ trav[t2].pc = "waiting"
        /\ trav[t3].parser = "PyPDFium2" /\ lock["PyPDFium2"] = t3

----------------------------------------------------------------------------
\* Properties of the order of the work (SpecParse)

\* C16: in per-page output PyPDF, PDFMiner, PyMuPDF, PyPDFium2 and
\* PDFPlumber compute the pages on demand: at the step that hands record
\* k (from 0) to the caller, the pages processed are pages 0 to k and no
\* page after k.
C16_PagesOnDemand ==
    [][(/\ pcfg.parser \in ZeroBasedParsers
        /\ pcfg.mode = "page"
        /\ Len(records') = Len(records) + 1)
       => pno' = Len(records')]_vars

----------------------------------------------------------------------------
\* Properties of _format_inner_image (SpecFormat)

\* a Python str written as a TLA+ string, character by character
RECURSIVE Chars(_)
Chars(str) == IF str = "" THEN <<>> ELSE <<Head(str)>> \o Chars(Tail(str))

\* every "]" of s comes right after a backslash
BracketsEscaped(s) ==
    \A i \in DOMAIN s : s[i] = "]" => (i > 1 /\ s[i - 1] = "\\")

\* s without the backslashes that precede a "]"
RECURSIVE Unescaped(_)
Unescaped(s) ==
    IF s = <<>> THEN <<>>
    ELSE IF Head(s) = "\\" THEN Unescaped(Tail(s))
    ELSE <<Head(s)>> \o Unescaped(Tail(s))

\* C17: for a non-empty caption c and the source s of the blob ("#" when
\* it has none) _format_inner_image returns c for "text", ![c'](s) with
\* every "]" of c escaped in c' for "markdown-img", and the well-formed
\* tag <img alt="e" src="s" /> with e the HTML-escaped c and the alt value
\* closed by its own quote for "html-img"; for an empty caption it
\* returns the empty string.
C17_FormattedImage ==
    fmt_pc = "done"
    => LET c == fmt_in.content
           s == SourceOrHash(fmt_in.source)
       IN  IF c = <<>> THEN fmt_out = <<>>
           ELSE CASE fmt_in.format = "text" -> fmt_out = c
                  [] fmt_in.format = "markdown-img" ->
                       \E e \in CaptionTextsUpTo(0) \cup
                                { SubSeq(fmt_out, 3, j) : j \in 3..Len(fmt_out) } :
                           /\ fmt_out = Chars("![") \o e \o Chars("](") \o s
                                          \o Chars(")")
                           /\ BracketsEscaped(e)
                           /\ Unescaped(e) = c
                  [] OTHER ->
                       fmt_out = Chars("<img alt=\"")
                                   \o ConcatMap(HtmlEscapeChar, c)
                                   \o Chars("\" src=\"") \o s \o Chars("\" />")

----------------------------------------------------------------------------
\* Properties of the image options (SpecConstruct)

\* C18: a parser constructed with extract_images=False extracts and
\* captions no image, whatever images_parser it was given: the outcome of
\* a page is the one of a parser without image parser; with
\* extract_images=True and no images_parser the default OCR parser is
\* used.
C18_ExtractImagesOption ==
    /\ (cpc \in {"parsed", "parse_raised"} /\ ~cargs.extract_images)
         => cout.result = PageOutcome(cself, FALSE, cout.page, cout.n_tables)
    /\ (cpc \in {"built", "parsed", "parse_raised"}
          /\ cargs.extract_images /\ cargs.images_parser = "None")
         => cself.images_parser = "RapidOCRBlobParser"

----------------------------------------------------------------------------
\* The frame of the merger (SpecMerge)

StartsWith(s, d) == Len(s) >= Len(d) /\ SubSeq(s, 1, Len(d)) = d

\* r is t with d + j put in at position p and nothing else changed
InsertedAt(r, t, p, d, j) ==
    /\ r = Prefix(t, p) \o d \o j \o Suffix(t, p)
    /\ Len(r) = Len(t) + Len(d) + Len(j)
    /\ Prefix(r, p) \o Suffix(r, p + Len(d) + Len(j)) = t

\* C19: with non-empty joined auxiliary content J the result is the page
\* text T with one block d + J put in, either at a position p where T
\* goes on with the delimiter d ("\n\n\n" or "\n\n"), or at the end with
\* d = "\n\n"; taking the block out gives T back, the length grows by
\* len(d) + len(J), and the empty entries of the list change nothing.
C19_MergerFrame ==
    (mpc = "merged" /\ JoinedAux # <<>>)
    => /\ \/ \E p \in 0..Len(text_from_page), i \in DOMAIN PARAGRAPH_DELIMITER :
               /\ StartsWith(Suffix(text_from_page, p), PARAGRAPH_DELIMITER[i])
               /\ InsertedAt(all_text, text_from_page, p,
                             PARAGRAPH_DELIMITER[i], JoinedAux)
          \/ InsertedAt(all_text, text_from_page, Len(text_from_page),
                        <<NL, NL>>, JoinedAux)
       /\ all_text = merge_text_and_extras(
                         SelectSeq(extras, LAMBDA x : x # <<>>),
                         text_from_page)

C19_Witness ==
    /\ mpc = "merged"
    /\ text_from_page = <<"A", NL, NL, "B">>
    /\ extras = << <<>>, <<"X">> >>
    /\ all_text = <<"A", NL, NL, "X", NL, NL, "B">>

\* what stands between the page text and the appended content
AppendedDelimiter ==
    SubSeq(all_text, Len(text_from_page) + 1, Len(all_text) - Len(JoinedAux))

\* the text has no blank-line boundary and the content is appended
AppendedAtEnd ==
    /\ mpc = "merged"
    /\ ~HasBlankLine(text_from_page)
    /\ JoinedAux # <<>>
    /\ StartsWith(all_text, text_from_page)

\* C20 (as stated): when the page text has no blank-line boundary and
\* there is non-empty auxiliary content, the delimiter before the appended
\* content is the strongest one, "\n\n\n", which the merger checks first.
C20_AppendsStrongestDelimiter ==
    AppendedAtEnd => AppendedDelimiter = <<NL, NL, NL>>

\* C20 (amended): the delimiter before the appended content is the last
\* delimiter of the list, "\n\n", not the one the merger checks first.
C20_AppendsLastDelimiter ==
    AppendedAtEnd
    => /\ AppendedDelimiter = <<NL, NL>>
       /\ AppendedDelimiter # PARAGRAPH_DELIMITER[1]

C20_Witness ==
    /\ AppendedAtEnd
    /\ text_from_page = <<"A">>
    /\ extras = << <<"X">> >>
    /\ AppendedDelimiter = <<NL, NL>>


----------------------------------------------------------------------------
\* Properties of the choice of the strategy in PyPDFParser (SpecImages)

\* the image just processed is an image XObject of pypdf with a filter name
PyPDFNamedFilter ==
    /\ ipc = "continue"
    /\ icfg.parser = "PyPDF"
    /\ cur.subtype = "Image"
    /\ cur.filter.form \in {"name", "array"}
    /\ cur.filter.name # ""

\* C21: in PyPDFParser an image under FlateDecode, LZWDecode or
\* RunLengthDecode is handled as raw pixels, so a buffer of h*w*c bytes
\* with c in {1,3,4} is reshaped and not skipped; only DCTDecode and
\* JPXDecode images go to the image codec; an unknown tag is skipped.
C21_FilterSelectsStrategy ==
    PyPDFNamedFilter
    => /\ (/\ cur.filter.name \in {"FlateDecode", "LZWDecode", "RunLengthDecode"}
           /\ cur.height > 0 /\ cur.width > 0
           /\ \E c \in {1, 3, 4} : cur.size = cur.height * cur.width * c)
            => cur_out.array = "reshaped"
       /\ cur_out.array = "pillow"
            => cur.filter.name \in {"DCTDecode", "JPXDecode"}
       /\ cur.filter.name \notin PDF_FILTER_WITH_LOSS \cup PDF_FILTER_WITHOUT_LOSS
            => cur_out.status = "skipped"


\* ---------------------------------------------------------------------
\* Properties of the channel inference of PyMuPDFParser (SpecImages)

\* a pixmap with positive height, width and length whose length differs
\* from height * width * pix.n, after the body of the loop has run on it
PixmapSizeMismatch ==
    /\ ipc = "continue" /\ icfg.parser = "PyMuPDF"
    /\ cur.height > 0 /\ cur.width > 0 /\ cur.size > 0
    /\ cur.size # cur.height * cur.width * cur.n

\* the buffer of `cur` was reshaped to (height, width, c)
ReshapedTo(c) ==
    /\ cur_out.array = "reshaped"
    /\ cur_out.shape = <<cur.height, cur.width, c>>

DatesWithoutOffset ==
    { "D:" \o y \o mo \o d \o "120000" :
        y \in {"2023", "2024"}, mo \in {"01", "02"}, d \in {"15"} }

\* the timestamp of such a date: that of the same date in UTC, without
\* its offset
TimestampWithoutOffset(v) == SubSeq(Strptime(v \o "Z").iso, 1, 19)

\* C23: the timezone offset of a PDF date is optional: for a creationdate
\* or moddate value D:YYYYMMDDHHMMSS with no trailing offset,
\* _purge_metadata stores the standard timestamp string rather than the
\* raw value.
C23_OffsetIsOptional ==
    (purge_pc = "done" /\ DateKeyOf(PurgedItem.k) # ""
       /\ PurgedItem.v.type = "str" /\ PurgedItem.v.s \in DatesWithoutOffset)
    => /\ ~purge_out.raised
       /\ DateKeyOf(PurgedItem.k) \in DOMAIN purge_out.value
       /\ purge_out.value[DateKeyOf(PurgedItem.k)] =
            StrV(TimestampWithoutOffset(PurgedItem.v.s))


\* the value as the loop sees it: str(v) unless type(v) is str or int
Coerced(v) == IF v.type \notin {"str", "int"} THEN StrV(PyStr(v)) ELSE v

\* the value is no PDF date of the pattern
Unparsable(v) == Coerced(v).type # "str" \/ ~ParsePdfDate(Coerced(v).s).ok

\* C24: for the keys creationdate and moddate, a value that cannot be
\* parsed as a PDF date, whatever its type (a string, an integer, a value
\* of another type coerced to a string), is stored unchanged under the
\* lowercased key, and no call of _purge_metadata raises.
C24_UnparsableDateKept ==
    purge_pc = "done"
    => /\ ~purge_out.raised
       /\ (DateKeyOf(PurgedItem.k) # "" /\ Unparsable(PurgedItem.v))
            => /\ DateKeyOf(PurgedItem.k) \in DOMAIN purge_out.value
               /\ purge_out.value[DateKeyOf(PurgedItem.k)] =
                    Coerced(PurgedItem.v)


\* the key of the result for the spellings of the model that are no date
\* keys: one leading "/" removed, then lowercased
NormalizedKeyOf(k) ==
    CASE k = "/Producer" -> "producer"
      [] k = "Title" -> "title"
      [] k = "//Subject" -> "/subject"
      [] OTHER -> k

\* what the call made of the item added last, under a key that is no date
\* key: both names for page_count and file_path, else the trimmed string
\* or the integer; and every value of the result is a str or an int
NonDateItemStored ==
    LET k == NormalizedKeyOf(PurgedItem.k)
        v == PurgedItem.v
        s == CASE v.type = "NoneType" -> StrV("None")
               [] v.type = "bool" -> StrV("True")
               [] OTHER -> v
    IN  /\ ~purge_out.raised
        /\ k \in DOMAIN purge_out.value
        /\ k = "page_count"
             => /\ purge_out.value["total_pages"] = s
                /\ purge_out.value["page_count"] = s
        /\ k = "file_path"
             => /\ purge_out.value["source"] = s
                /\ purge_out.value["file_path"] = s
        /\ (k \notin {"page_count", "file_path"} /\ s.type = "str")
             => /\ purge_out.value[k] = StrV(ValueStrip(s.s))
                /\ s.s = " Acme " => purge_out.value[k] = StrV("Acme")
        /\ (k \notin {"page_count", "file_path"} /\ s.type = "int")
             => purge_out.value[k] = s
        /\ \A key \in DOMAIN purge_out.value :
             purge_out.value[key].type \in {"str", "int"}

\* C25: for an input pair of _purge_metadata whose normalized key is no
\* date key, the key is stored with one leading "/" removed and
\* lowercased, the value is replaced by its str unless it is a str or an
\* int, page_count and file_path are stored under the canonical and the
\* normalized key, any other string is stored trimmed and an integer
\* unchanged; every value of the result is a str or an int, the pair
\* yields an output key, and the input mapping is not modified.
C25_NonDatePairs ==
    [][(purge_pc = "ready" /\ purge_pc' = "done"
          /\ DateKeyOf(PurgedItem.k) = "")
       => (purge_in' = purge_in /\ NonDateItemStored')]_vars

C25_Witness ==
    /\ purge_pc = "done"
    /\ PurgedItem = Item("page_count", IntV(3))
    /\ purge_in[1].k = "producer"
    /\ purge_out.value["total_pages"] = IntV(3)
    /\ purge_out.value["page_count"] = IntV(3)


----------------------------------------------------------------------------
\* Properties of two passes of _purge_metadata (SpecRepurge)

\* the two dicts are equal: the same keys with the same values
SameDict(a, b) == AsDict(a) = AsDict(b)

FirstOf(names) ==
    IF \E i \in DOMAIN purge_in : KeyLower(purge_in[i].k) \in names
    THEN CHOOSE i \in DOMAIN purge_in :
           /\ KeyLower(purge_in[i].k) \in names
           /\ \A j \in 1..(i - 1) : KeyLower(purge_in[j].k) \notin names
    ELSE 0

\* no key of the mapping that normalises to the canonical name comes
\* after one that normalises to its synonym
CanonicalBeforeSynonym(canonical, synonym) ==
    \A i \in DOMAIN purge_in :
        KeyLower(purge_in[i].k) = canonical
            => (FirstOf({synonym}) = 0 \/ i < FirstOf({synonym}))

\* no key of the mapping begins with two slashes
NoDoubleSlash ==
    \A i \in DOMAIN purge_in : SubSeq(purge_in[i].k, 1, 2) # "//"

----------------------------------------------------------------------------
\* Properties of a page without caption (SpecParse)

\* no image of the page yields a caption: the page has no image, or every
\* image of it is skipped
NoCaptionOn(cfg, page) ==
    \A j \in DOMAIN page.imgs :
        IF cfg.parser = "PyPDFium2" THEN page.imgs[j].size < 3
        ELSE ProcessImage(cfg.parser, page.imgs[j],
                          cfg.images_inner_format).status # "appended"

\* the same parser without images_parser
ExtractionDisabled(cfg) == [cfg EXCEPT !.images_parser = FALSE]

\* C28: when image extraction is enabled but no image of a page yields a
\* caption, the page_content of the page is identical to the one produced
\* with image extraction disabled: no text or whitespace is inserted.
\* This holds for PyPDF, PyMuPDF and PyPDFium2.
C28_NoCaptionNoInsertion ==
    (pcfg.parser \in {"PyPDF", "PyMuPDF", "PyPDFium2"} /\ pcfg.mode = "page"
       /\ pcfg.images_parser)
    => \A i \in DOMAIN records :
          NoCaptionOn(pcfg, pinput[i])
            => records[i].page_content =
                 PageTextOf(ExtractionDisabled(pcfg), pinput[i]).text


----------------------------------------------------------------------------
\* Properties of the document-level metadata (SpecParse)

\* the keys a record of the parser adds to the document-level metadata
PageKeysOf(parser) ==
    IF parser = "PyPDF" THEN {"page", "page_label"} ELSE {"page"}

\* the record agrees with the document-level metadata dm on every other
\* key
AgreesWithDocument(record, dm) ==
    /\ DOMAIN record.metadata = DOMAIN dm \cup PageKeysOf(pcfg.parser)
    /\ \A k \in DOMAIN dm \ PageKeysOf(pcfg.parser) :
         record.metadata[k] = dm[k]

\* C26: within one traversal of PyPDF, PDFMiner, PyMuPDF or PyPDFium2 in
\* page mode the document-level metadata is computed once before the
\* first record and never modified afterwards; every record agrees with
\* it on every key other than page (and page_label for PyPDF), and a write
\* of the caller into the metadata of a record already emitted does not
\* alter the metadata of a record emitted later.
C26_DocumentMetadataShared ==
    [][(pcfg.parser \in ValidatingParsers /\ pcfg.mode = "page")
       => /\ ppc # "start" => doc_metadata' = doc_metadata
          /\ \A i \in DOMAIN records' :
               ~records'[i].touched
                   => AgreesWithDocument(records'[i], doc_metadata')]_vars

C26_Witness ==
    /\ pcfg.parser = "PyPDF" /\ pcfg.mode = "page" /\ pcfg.info = "full"
    /\ ~pcfg.images_parser
    /\ Len(records) = 2
    /\ records[1].touched
    /\ records[1].metadata["producer"] = StrV("changed")
    /\ records[2].metadata["producer"] = StrV("Acme")
    /\ records[2].metadata["total_pages"] = IntV(2)
    /\ records[2].metadata["page"] = IntV(1)


----------------------------------------------------------------------------
\* Properties of the metadata contract (SpecParse)

\* _validate_metadata has raised its ValueError inside lazy_parse
ContractViolation ==
    /\ ppc = "raised"
    /\ perror = [exc |-> "ValueError", stage |-> "metadata"]

\* C29: for PyPDF, PDFMiner, PyMuPDF and PyPDFium2, whatever keys and
\* values the metadata of the document holds (keys that normalise to
\* page, source, total_pages, page_count or file_path included), every
\* record passes _validate_metadata in page mode and in single mode: the
\* ValueError of the contract is unreachable from document data.
C29_ContractHoldsForAnyDocument ==
    pcfg.parser \in ValidatingParsers => ~ContractViolation


----------------------------------------------------------------------------
\* Properties of a traversal left unfinished (SpecLockLive)

\* C27: a caller that pulls some records of one PyMuPDF (or PyPDFium2)
\* traversal and, keeping it unexhausted and unclosed, starts to pull
\* from a second traversal of the same class is never blocked forever,
\* and a caller that stops iterating partway does not keep a later
\* traversal of the class from starting: a traversal that waits for the
\* lock always gets it in the end.
C27_NeverBlockedForever ==
    \A t \in Traversals :
        (trav[t].pc = "waiting") ~> (trav[t].pc # "waiting")

============================================================================
